---- MODULE Spec2Model ----
(***************************************************************************)
(* Pivot engine of the Excel export extension: processPivotData and the    *)
(* conditional formatting helpers of utils/exportToExcel.ts, modelled as   *)
(* operators over explicit JavaScript values, and applied by the actions   *)
(* of small state machines whose initial states enumerate the inputs;      *)
(* exportData of utils/exportManager.ts, App.handleExport and the drag-end *)
(* handler of PivotConfig, modelled as state machines of their own.        *)
(***************************************************************************)
EXTENDS Integers, Sequences, FiniteSets, TLC

VARIABLES
    data,          \* main dataset: sequence of row objects
    gcData,        \* column grand totals dataset (or NoData)
    rcData,        \* row grand totals dataset (or NoData)
    groupCols,     \* group columns (row dimensions)
    pivotCols,     \* pivot columns (column dimensions)
    valueCols,     \* value columns (measures)
    totalsConfig,  \* totals configuration object (or NoConfig)
    result,        \* PivotDataResult of the last call (or NoResult)
    prevResult,    \* PivotDataResult of the call before the last one
    calls,         \* number of calls of processPivotData made so far
    input0,        \* snapshot of the inputs taken before the first call
    trace,         \* sortedRowKeys and colKeys of the last call (history)
    column,        \* the raw values of one slot of the data matrix, row by row
    columnRules,   \* the conditionalFormats of the value column of that slot
    styled,        \* the style computed for each cell of the slot (or NoStyles)
    csv,           \* the chunks of the exported CSV content (or NoCsv)
    sheets,        \* exportData: the sheets argument of the running call
    downloads,     \* exportData: the files handed to downloadFile, in order
    exportPc,      \* exportData: position of the running call
    savedConfig,   \* App state: the configuration loaded from the settings
    settings,      \* the parsed config_<name> settings, in dashboard order
    configuredWorksheets, \* handleExport: the worksheets that have a config
    callbacks,     \* handleExport: position of the callback of each worksheet
    exportDataList, \* handleExport: the list the callbacks push to
    isExporting,   \* App state
    exportError,   \* App state: null or a message
    handlerPc,     \* handleExport: position of the handler
    exportDataCalls, \* handleExport: the arguments of the calls of exportData
    allFields,     \* ConfigDialog: the columns of the worksheet
    config,        \* ConfigDialog: groupColumns, pivotColumns, valueColumns
    containers,    \* PivotConfig state: the four lists of columns
    lastDrag       \* the last drag-end event and the containers before it

exportVars == <<sheets, downloads, exportPc>>
appVars == <<savedConfig, settings, configuredWorksheets, callbacks,
             exportDataList, isExporting, exportError, handlerPc,
             exportDataCalls>>
dragVars == <<allFields, config, containers, lastDrag>>
shellVars == <<exportVars, appVars, dragVars>>

vars == <<data, gcData, rcData, groupCols, pivotCols, valueCols, totalsConfig,
          result, prevResult, calls, input0, trace, column, columnRules, styled,
          csv, shellVars>>

pivotVars == <<data, gcData, rcData, groupCols, pivotCols, valueCols,
               totalsConfig, result, prevResult, calls, input0, trace>>
formatVars == <<column, columnRules, styled>>

(***************************************************************************)
(* JavaScript values.  A value is a tagged tuple; a string is a sequence   *)
(* of one-character strings, so that the string operations of the code     *)
(* (join, split, trim, toLowerCase, includes, sort) are computed.          *)
(***************************************************************************)
Undefined == <<"undefined">>
Null == <<"null">>
NaN == <<"NaN">>
Num(n) == <<"number", n>>
Bool(b) == <<"boolean", b>>
Str(s) == <<"string", s>>
IsNum(v) == v[1] = "number"
IsStr(v) == v[1] = "string"

\* a dataset argument: an array of row objects, or undefined / null
Dataset(rows) == [defined |-> TRUE, rows |-> rows]
NoData == [defined |-> FALSE, rows |-> <<>>]

\* the totalsConfig argument when it is not passed
NoConfig ==
    [defined |-> FALSE, showRowTotals |-> FALSE, rowTotalsPosition |-> "right",
     showColumnTotals |-> FALSE, columnTotalsPosition |-> "bottom",
     showSubtotals |-> FALSE, columnTotalsLabel |-> Undefined]

NoResult == [none |-> TRUE]

\* no CSV content has been produced: an export pushes at least one chunk
NoCsv == <<>>
CsvIdle == csv = NoCsv

\* no call of exportData is running and nothing has been downloaded
ExportIdle ==
    /\ sheets = <<>>
    /\ downloads = <<>>
    /\ exportPc = "idle"

\* the App as first rendered: useState(false), useState(null)
NoSavedConfig == [none |-> TRUE]

AppIdle ==
    /\ savedConfig = NoSavedConfig
    /\ settings = <<>>
    /\ configuredWorksheets = <<>>
    /\ callbacks = <<>>
    /\ exportDataList = <<>>
    /\ isExporting = FALSE
    /\ exportError = Null
    /\ handlerPc = "idle"
    /\ exportDataCalls = <<>>

NoColumns == [available |-> <<>>, group |-> <<>>, pivot |-> <<>>, value |-> <<>>]
NoDrag == [none |-> TRUE]

\* the configuration dialog is not open
DragIdle ==
    /\ allFields = <<>>
    /\ config = [group |-> <<>>, pivot |-> <<>>, value |-> <<>>]
    /\ containers = NoColumns
    /\ lastDrag = NoDrag

ShellIdle == ExportIdle /\ AppIdle /\ DragIdle

\* The characters of the model, in ascending order of their UTF-16 code.
Alphabet ==
    <<" ", "(", ")", "-", "0", "1", "2", "3", "4", "5", "6", "7", "8", "9",
      "A", "B", "G", "L", "N", "O", "S", "T", "[", "]", "_",
      "a", "b", "c", "d", "e", "f", "g", "i", "k", "l", "m", "n", "o", "p",
      "r", "s", "t", "u", "v", "x", "y", "|">>

Chars == {Alphabet[i] : i \in 1..Len(Alphabet)}

CharCode == [c \in Chars |-> CHOOSE i \in 1..Len(Alphabet) : Alphabet[i] = c]

Digits == <<"0", "1", "2", "3", "4", "5", "6", "7", "8", "9">>
DigitSet == {Digits[i] : i \in 1..10}
DigitVal == [c \in DigitSet |-> (CHOOSE i \in 1..10 : Digits[i] = c) - 1]

LowerOf ==
    [c \in Chars |->
        CASE c = "A" -> "a" [] c = "B" -> "b" [] c = "G" -> "g"
          [] c = "L" -> "l" [] c = "N" -> "n" [] c = "O" -> "o" [] c = "S" -> "s"
          [] c = "T" -> "t" [] OTHER -> c]

\* String.prototype.toLowerCase
toLowerCase(s) == [i \in 1..Len(s) |-> LowerOf[s[i]]]

\* a < b in the order of Array.prototype.sort() without a comparator
\* (code unit by code unit, a proper prefix first)
RECURSIVE StrLess(_, _)
StrLess(a, b) ==
    IF b = <<>> THEN FALSE
    ELSE IF a = <<>> THEN TRUE
    ELSE IF a[1] = b[1] THEN StrLess(Tail(a), Tail(b))
    ELSE CharCode[a[1]] < CharCode[b[1]]

\* String.prototype.includes
includes(s, sub) ==
    \E i \in 0..(Len(s) - Len(sub)) : SubSeq(s, i + 1, i + Len(sub)) = sub

\* String.prototype.trim
RECURSIVE trimStart(_)
trimStart(s) == IF s # <<>> /\ s[1] = " " THEN trimStart(Tail(s)) ELSE s
RECURSIVE trimEnd(_)
trimEnd(s) ==
    IF s # <<>> /\ s[Len(s)] = " " THEN trimEnd(SubSeq(s, 1, Len(s) - 1)) ELSE s
trim(s) == trimEnd(trimStart(s))

\* s.replace(/[\[\]]/g, '')
stripBrackets(s) == SelectSeq(s, LAMBDA c : c # "[" /\ c # "]")

\* fieldId.replace(/[\[\]]/g, '').trim()
normalizeId(s) == trim(stripBrackets(s))

\* String(n) for an integer n
RECURSIVE NatToStr(_)
NatToStr(n) ==
    IF n < 10 THEN <<Digits[n + 1]>>
    ELSE NatToStr(n \div 10) \o <<Digits[(n % 10) + 1]>>
NumToStr(n) == IF n < 0 THEN <<"-">> \o NatToStr(0 - n) ELSE NatToStr(n)

\* String(v)
String(v) ==
    CASE IsStr(v) -> v[2]
      [] IsNum(v) -> NumToStr(v[2])
      [] v = Null -> <<"n", "u", "l", "l">>
      [] v = NaN -> <<"N", "a", "N">>
      [] v = Bool(TRUE) -> <<"t", "r", "u", "e">>
      [] v = Bool(FALSE) -> <<"f", "a", "l", "s", "e">>
      [] OTHER -> <<"u", "n", "d", "e", "f", "i", "n", "e", "d">>

\* the element conversion of Array.prototype.join: null and undefined give ''
JoinElem(v) == IF v = Null \/ v = Undefined THEN <<>> ELSE String(v)

Delim == <<"|", "|", "|">>

\* parts.join('|||')
RECURSIVE join(_)
join(parts) ==
    IF parts = <<>> THEN <<>>
    ELSE IF Len(parts) = 1 THEN JoinElem(parts[1])
    ELSE JoinElem(parts[1]) \o Delim \o join(Tail(parts))

\* key.split('|||'): the pieces between the occurrences of the delimiter
RECURSIVE splitAcc(_, _)
splitAcc(s, cur) ==
    IF s = <<>> THEN <<cur>>
    ELSE IF Len(s) >= 3 /\ SubSeq(s, 1, 3) = Delim
         THEN <<cur>> \o splitAcc(SubSeq(s, 4, Len(s)), <<>>)
    ELSE splitAcc(Tail(s), Append(cur, s[1]))
split(s) == splitAcc(s, <<>>)

\* the longest prefix of digits of s, as a pair <<number of digits, value>>
RECURSIVE digitsPrefix(_, _, _)
digitsPrefix(s, n, acc) ==
    IF s # <<>> /\ s[1] \in DigitSet
    THEN digitsPrefix(Tail(s), n + 1, acc * 10 + DigitVal[s[1]])
    ELSE <<n, acc>>

\* parseFloat(s) on the strings of the model (no fraction, no exponent)
parseFloat(s) ==
    LET t == trimStart(s)
        neg == t # <<>> /\ t[1] = "-"
        u == IF neg THEN Tail(t) ELSE t
        d == digitsPrefix(u, 0, 0)
    IN IF d[1] = 0 THEN NaN ELSE Num(IF neg THEN 0 - d[2] ELSE d[2])

\* falsy values of JavaScript
Falsy(v) ==
    \/ v = Undefined \/ v = Null \/ v = NaN \/ v = Str(<<>>) \/ v = Num(0)
    \/ v = Bool(FALSE)

(***************************************************************************)
(* Row objects and Maps: sequences of <<key, value>> pairs in insertion    *)
(* order, a key occurring at most once.                                    *)
(***************************************************************************)
Keys(obj) == [i \in 1..Len(obj) |-> obj[i][1]]
Has(obj, k) == \E i \in 1..Len(obj) : obj[i][1] = k
Get(obj, k) ==
    IF Has(obj, k) THEN obj[CHOOSE i \in 1..Len(obj) : obj[i][1] = k][2]
    ELSE Undefined
MapSet(obj, k, v) ==
    IF Has(obj, k)
    THEN [i \in 1..Len(obj) |-> IF obj[i][1] = k THEN <<k, v>> ELSE obj[i]]
    ELSE Append(obj, <<k, v>>)

\* Array.prototype.find over a sequence of keys: the first key satisfying P
FindKey(keys, P(_)) ==
    LET hits == {i \in 1..Len(keys) : P(keys[i])}
    IN IF hits = {} THEN Undefined
       ELSE Str(keys[CHOOSE i \in hits : \A j \in hits : i <= j])

(***************************************************************************)
(* processPivotData: helpers                                               *)
(***************************************************************************)
TOTAL_KEY == <<"_", "_", "_", "T", "O", "T", "A", "L", "_", "_", "_">>
GrandTotal == <<"G", "r", "a", "n", "d", " ", "T", "o", "t", "a", "l">>
Blank == <<"(", "B", "l", "a", "n", "k", ")">>

\* val.replace(/[^0-9.-]/g, '') (the strings of the model hold no '.')
cleanNumeric(s) == SelectSeq(s, LAMBDA c : c \in DigitSet \/ c = "-")

\* variant: the string is parsed as it is, nothing stripped
parseVal_noStrip(val) ==
    IF IsNum(val) THEN val
    ELSE IF IsStr(val)
         THEN IF Falsy(parseFloat(val[2])) THEN Num(0) ELSE parseFloat(val[2])
    ELSE Num(0)

parseVal(val) ==
    IF IsNum(val) THEN val
    ELSE IF IsStr(val)
         THEN LET f == parseFloat(cleanNumeric(val[2]))
              IN IF Falsy(f) THEN Num(0) ELSE f
    ELSE Num(0)

findFieldValue(row, fieldId, fieldName) ==
    LET normalizedId == normalizeId(fieldId)
        fieldIdLower == toLowerCase(fieldId)
        normalizedIdLower == toLowerCase(normalizedId)
        fieldNameLower == toLowerCase(fieldName)
        matchedKey ==
            FindKey(Keys(row),
                    LAMBDA key :
                        LET keyLower == toLowerCase(key)
                        IN \/ keyLower = fieldIdLower
                           \/ keyLower = normalizedIdLower
                           \/ (fieldNameLower # <<>> /\ keyLower = fieldNameLower))
    IN IF Has(row, fieldId) /\ Get(row, fieldId) # Undefined
       THEN Get(row, fieldId)
       ELSE IF fieldName # <<>> /\ Has(row, fieldName)
               /\ Get(row, fieldName) # Undefined
       THEN Get(row, fieldName)
       ELSE IF normalizedId # <<>> /\ normalizedId # fieldId
               /\ Has(row, normalizedId) /\ Get(row, normalizedId) # Undefined
       THEN Get(row, normalizedId)
       ELSE IF matchedKey # Undefined /\ matchedKey[2] # <<>>
               /\ Get(row, matchedKey[2]) # Undefined
       THEN Get(row, matchedKey[2])
       ELSE Undefined

\* groupCols.map(c => row[c.id]).join('|||')
keyOf(row, cols) == join([i \in 1..Len(cols) |-> Get(row, cols[i].id)])

\* variant: shorter keys first, as a numeric comparison orders digit strings
RECURSIVE sortStrings_shortestFirst(_)
sortStrings_shortestFirst(S) ==
    IF S = {} THEN <<>>
    ELSE LET m == CHOOSE x \in S :
                     \A y \in S \ {x} :
                         \/ Len(x) < Len(y)
                         \/ Len(x) = Len(y) /\ StrLess(x, y)
         IN <<m>> \o sortStrings_shortestFirst(S \ {m})

\* Array.from(set).sort()
RECURSIVE sortStrings(_)
sortStrings(S) ==
    IF S = {} THEN <<>>
    ELSE LET m == CHOOSE x \in S : \A y \in S \ {x} : StrLess(x, y)
         IN <<m>> \o sortStrings(S \ {m})

\* rowKeyMap / colKeyMap: the first row observed for a key
firstRowWithKey(rows, cols, key) ==
    rows[CHOOSE i \in 1..Len(rows) :
            /\ keyOf(rows[i], cols) = key
            /\ \A j \in 1..(i - 1) : keyOf(rows[j], cols) # key]

uniqueRowKeys(rows, gCols) ==
    sortStrings({keyOf(rows[i], gCols) : i \in 1..Len(rows)})

\* variant: no column key at all when there is no pivot column
uniqueColKeys_noFlatKey(rows, pCols) ==
    IF Len(pCols) > 0
    THEN sortStrings({keyOf(rows[i], pCols) : i \in 1..Len(rows)})
    ELSE <<>>

\* variant: the pivot keys of the column totals dataset become column keys too
uniqueColKeys_withTotalsKeys(rows, pCols) ==
    IF Len(pCols) > 0
    THEN sortStrings({keyOf(rows[i], pCols) : i \in 1..Len(rows)}
                     \cup {keyOf(gcData.rows[i], pCols) : i \in 1..Len(gcData.rows)})
    ELSE << <<>> >>

uniqueColKeys(rows, pCols) ==
    IF Len(pCols) > 0
    THEN sortStrings({keyOf(rows[i], pCols) : i \in 1..Len(rows)})
    ELSE << <<>> >>

\* the actual field name of one value column, looked up in the first row
actualFieldName(firstRow, vc) ==
    LET normalizedId == normalizeId(vc.id)
        vcIdLower == toLowerCase(vc.id)
        normalizedIdLower == toLowerCase(normalizedId)
        vcNameLower == toLowerCase(vc.name)
        matchedKey ==
            FindKey(Keys(firstRow),
                    LAMBDA key :
                        LET keyLower == toLowerCase(key)
                        IN \/ keyLower = vcIdLower
                           \/ keyLower = normalizedIdLower
                           \/ (vcNameLower # <<>> /\ keyLower = vcNameLower)
                           \/ includes(keyLower, vcIdLower)
                           \/ includes(vcIdLower, keyLower)
                           \/ /\ normalizedIdLower # <<>>
                              /\ \/ includes(keyLower, normalizedIdLower)
                                 \/ includes(normalizedIdLower, keyLower))
    IN IF Has(firstRow, vc.id) THEN Str(vc.id)
       ELSE IF vc.name # <<>> /\ Has(firstRow, vc.name) THEN Str(vc.name)
       ELSE IF normalizedId # <<>> /\ normalizedId # vc.id
               /\ Has(firstRow, normalizedId)
       THEN Str(normalizedId)
       ELSE matchedKey

\* fieldNameMapping: value column id -> actual field name in the first row
RECURSIVE buildFieldNameMapping(_, _, _)
buildFieldNameMapping(firstRow, vCols, acc) ==
    IF vCols = <<>> THEN acc
    ELSE LET vc == Head(vCols)
             actual == actualFieldName(firstRow, vc)
         IN buildFieldNameMapping(
                firstRow, Tail(vCols),
                IF actual # Undefined /\ actual[2] # <<>>
                THEN MapSet(acc, vc.id, actual) ELSE acc)

\* valueCols.find(vc => vc.id === fieldId)?.name
nameOfValueCol(vCols, fieldId) ==
    LET hits == {i \in 1..Len(vCols) : vCols[i].id = fieldId}
    IN vCols[CHOOSE i \in hits : \A j \in hits : i <= j].name

\* the value stored for one value column of one row of the main dataset
resolveValue(row, vc, vCols, mapping) ==
    LET mappedFieldName == Get(mapping, vc.id)
    IN IF mappedFieldName # Undefined /\ Has(row, mappedFieldName[2])
          /\ Get(row, mappedFieldName[2]) # Undefined
       THEN Get(row, mappedFieldName[2])
       ELSE findFieldValue(row, vc.id, nameOfValueCol(vCols, vc.id))

\* valueCols.forEach(vc => ...) of the populate loop, on one cMap
\* cMap.set(vc.id, value), and under the mapped field name as well
storeValue(cMap, vc, value, mappedFieldName) ==
    IF mappedFieldName # Undefined /\ mappedFieldName[2] # vc.id
       /\ value # Undefined
    THEN MapSet(MapSet(cMap, vc.id, value), mappedFieldName[2], value)
    ELSE MapSet(cMap, vc.id, value)

RECURSIVE storeValues(_, _, _, _, _)
storeValues(cMap, row, rest, vCols, mapping) ==
    IF rest = <<>> THEN cMap
    ELSE storeValues(
             storeValue(cMap, Head(rest),
                        resolveValue(row, Head(rest), vCols, mapping),
                        Get(mapping, Head(rest).id)),
             row, Tail(rest), vCols, mapping)

\* valueMap.get(rKey)?.get(cKey), an empty Map when either is missing
cellMap(valueMap, rKey, cKey) ==
    IF Has(valueMap, rKey) /\ Has(Get(valueMap, rKey), cKey)
    THEN Get(Get(valueMap, rKey), cKey) ELSE <<>>

hasCellMap(valueMap, rKey, cKey) ==
    Has(valueMap, rKey) /\ Has(Get(valueMap, rKey), cKey)

setCellMap(valueMap, rKey, cKey, cMap) ==
    LET rMap == IF Has(valueMap, rKey) THEN Get(valueMap, rKey) ELSE <<>>
    IN MapSet(valueMap, rKey, MapSet(rMap, cKey, cMap))

\* data.forEach(row => ...) of "Populate base values"
\* one iteration of the populate loop, on the cell (rKey, cKey)
populateRow(valueMap, row, rKey, cKey, vCols, mapping) ==
    setCellMap(valueMap, rKey, cKey,
               storeValues(cellMap(valueMap, rKey, cKey), row, vCols, vCols,
                           mapping))

RECURSIVE populate(_, _, _, _, _, _)
populate(valueMap, rows, gCols, pCols, vCols, mapping) ==
    IF rows = <<>> THEN valueMap
    ELSE populate(
             populateRow(valueMap, Head(rows), keyOf(Head(rows), gCols),
                         IF Len(pCols) > 0 THEN keyOf(Head(rows), pCols)
                         ELSE <<>>,
                         vCols, mapping),
             Tail(rows), gCols, pCols, vCols, mapping)

\* the value of a value column in a row of a totals dataset, before parseVal
orMappedField(val, row, mappedFieldName) ==
    IF val = Undefined /\ mappedFieldName # Undefined
    THEN Get(row, mappedFieldName[2]) ELSE val

totalFieldValue(row, vc, mapping) ==
    orMappedField(findFieldValue(row, vc.id, vc.name), row, Get(mapping, vc.id))

RECURSIVE storeTotals(_, _, _, _)
storeTotals(cMap, row, rest, mapping) ==
    IF rest = <<>> THEN cMap
    ELSE storeTotals(
             MapSet(cMap, Head(rest).id,
                    parseVal(totalFieldValue(row, Head(rest), mapping))),
             row, Tail(rest), mapping)

\* rcData.forEach(row => ...): row totals stored under (rKey, TOTAL_KEY)
\* one iteration of a totals loop, on the cell (rKey, cKey)
injectTotalsRow(valueMap, row, rKey, cKey, vCols, mapping) ==
    setCellMap(valueMap, rKey, cKey,
               storeTotals(cellMap(valueMap, rKey, cKey), row, vCols, mapping))

RECURSIVE injectRowTotals(_, _, _, _, _)
injectRowTotals(valueMap, rows, gCols, vCols, mapping) ==
    IF rows = <<>> THEN valueMap
    ELSE injectRowTotals(
             injectTotalsRow(valueMap, Head(rows), keyOf(Head(rows), gCols),
                             TOTAL_KEY, vCols, mapping),
             Tail(rows), gCols, vCols, mapping)

\* gcData.forEach(row => ...): column totals stored under (TOTAL_KEY, cKey)
RECURSIVE injectColumnTotals(_, _, _, _, _)
injectColumnTotals(valueMap, rows, pCols, vCols, mapping) ==
    IF rows = <<>> THEN valueMap
    ELSE injectColumnTotals(
             injectTotalsRow(valueMap, Head(rows), TOTAL_KEY,
                             IF Len(pCols) > 0 THEN keyOf(Head(rows), pCols)
                             ELSE <<>>,
                             vCols, mapping),
             Tail(rows), pCols, vCols, mapping)

\* variant: each row's value replaces the total instead of being added to it
globalTotal_overwrite(rows, vc, mapping) ==
    IF rows = <<>> THEN 0
    ELSE parseVal(totalFieldValue(rows[Len(rows)], vc, mapping))[2]

\* the sum of one value column over the rows of gcData
RECURSIVE globalTotal(_, _, _)
globalTotal(rows, vc, mapping) ==
    IF rows = <<>> THEN 0
    ELSE parseVal(totalFieldValue(Head(rows), vc, mapping))[2]
         + globalTotal(Tail(rows), vc, mapping)

RECURSIVE storeGlobalTotals(_, _, _, _)
storeGlobalTotals(cMap, rows, rest, mapping) ==
    IF rest = <<>> THEN cMap
    ELSE storeGlobalTotals(
             MapSet(cMap, Head(rest).id,
                    Num(globalTotal(rows, Head(rest), mapping))),
             rows, Tail(rest), mapping)

showRowTotals(tc) == tc.defined /\ tc.showRowTotals
showColumnTotals(tc) == tc.defined /\ tc.showColumnTotals

\* valueMap after the populate loop and the injection of both totals datasets
\* 3a. Inject Row Totals (rcData)
withRowTotals(valueMap, gCols, vCols, tc, rc, mapping) ==
    IF showRowTotals(tc) /\ rc.defined /\ Len(rc.rows) > 0
    THEN injectRowTotals(valueMap, rc.rows, gCols, vCols, mapping)
    ELSE valueMap

\* if (!valueMap.has(TOTAL_KEY)) valueMap.set(TOTAL_KEY, new Map())
withTotalRowMap(valueMap) ==
    IF Has(valueMap, TOTAL_KEY) THEN valueMap
    ELSE MapSet(valueMap, TOTAL_KEY, <<>>)

\* the global total cell (TOTAL_KEY, TOTAL_KEY), summed over gcData
withGlobalTotal(valueMap, vCols, tc, gc, mapping) ==
    IF showRowTotals(tc)
    THEN setCellMap(valueMap, TOTAL_KEY, TOTAL_KEY,
                    storeGlobalTotals(cellMap(valueMap, TOTAL_KEY, TOTAL_KEY),
                                      gc.rows, vCols, mapping))
    ELSE valueMap

\* 3b. Inject Column Totals (gcData)
withColumnTotals(valueMap, pCols, vCols, tc, gc, mapping) ==
    IF showColumnTotals(tc) /\ gc.defined /\ Len(gc.rows) > 0
    THEN withGlobalTotal(
             injectColumnTotals(withTotalRowMap(valueMap), gc.rows, pCols,
                                vCols, mapping),
             vCols, tc, gc, mapping)
    ELSE valueMap

\* valueMap after the populate loop and the injection of both totals datasets
buildValueMap(rows, gCols, pCols, vCols, tc, gc, rc, mapping) ==
    withColumnTotals(
        withRowTotals(populate(<<>>, rows, gCols, pCols, vCols, mapping),
                      gCols, vCols, tc, rc, mapping),
        pCols, vCols, tc, gc, mapping)

\* variant: the total column is appended whatever the configured position
injectColTotalKey_append(colKeys, tc) ==
    IF showRowTotals(tc) THEN Append(colKeys, TOTAL_KEY) ELSE colKeys

\* 4. Inject Total Keys into Lists
injectColTotalKey(colKeys, tc) ==
    IF showRowTotals(tc)
    THEN IF tc.rowTotalsPosition = "left"
         THEN <<TOTAL_KEY>> \o colKeys ELSE Append(colKeys, TOTAL_KEY)
    ELSE colKeys

injectRowTotalKey(sortedRowKeys, tc) ==
    IF showColumnTotals(tc)
    THEN IF tc.columnTotalsPosition = "top"
         THEN <<TOTAL_KEY>> \o sortedRowKeys
         ELSE Append(sortedRowKeys, TOTAL_KEY)
    ELSE sortedRowKeys

(***************************************************************************)
(* Conditional formatting.  A colour Color(r, g, b) is the string          *)
(* '#rrggbb' with those channels in lower-case hexadecimal digits,         *)
(* UpperColor(r, g, b) the same string in upper-case digits; any other     *)
(* value is a string that the regular expression of hexToRgb does not      *)
(* match.  Numbers are integers; an interpolation factor is the exact      *)
(* fraction num / den.                                                     *)
(***************************************************************************)
Color(r, g, b) == <<"color", r, g, b>>
UpperColor(r, g, b) == <<"COLOR", r, g, b>>

\* the regular expression is case-insensitive
hexToRgb(hex) ==
    IF hex[1] = "color" \/ hex[1] = "COLOR"
    THEN [r |-> hex[2], g |-> hex[3], b |-> hex[4]]
    ELSE [r |-> 0, g |-> 0, b |-> 0]

\* Number.prototype.toString(16) gives lower-case digits
rgbToHex(r, g, b) == Color(r, g, b)

\* Math.round(start + (end - start) * factor), factor = num / den, den > 0
interpolate(start, end, num, den) ==
    (2 * (start * den + (end - start) * num) + den) \div (2 * den)

\* the colour between c1 and c2 at factor num / den
mix(c1, c2, num, den) ==
    rgbToHex(interpolate(c1.r, c2.r, num, den),
             interpolate(c1.g, c2.g, num, den),
             interpolate(c1.b, c2.b, num, den))

\* variant: the two ends of the scale are interpolated like the inside
getColorFromScale_strict(value, min, max, minColor, maxColor, midColor) ==
    IF value < min THEN minColor
    ELSE IF value > max THEN maxColor
    ELSE IF ~Falsy(midColor)
    THEN IF 2 * value < min + max
         THEN mix(hexToRgb(minColor), hexToRgb(midColor),
                  2 * (value - min), max - min)
         ELSE mix(hexToRgb(midColor), hexToRgb(maxColor),
                  2 * value - min - max, max - min)
    ELSE mix(hexToRgb(minColor), hexToRgb(maxColor), value - min, max - min)

\* value, min and max are integers
getColorFromScale(value, min, max, minColor, maxColor, midColor) ==
    IF value <= min THEN minColor
    ELSE IF value >= max THEN maxColor
    ELSE IF ~Falsy(midColor)
    THEN \* mid = (min + max) / 2
         IF 2 * value < min + max
         THEN mix(hexToRgb(minColor), hexToRgb(midColor),
                  2 * (value - min), max - min)
         ELSE mix(hexToRgb(midColor), hexToRgb(maxColor),
                  2 * value - min - max, max - min)
    ELSE mix(hexToRgb(minColor), hexToRgb(maxColor), value - min, max - min)

\* [...columnValues].sort((a, b) => a - b)
RECURSIVE sortNumbers(_)
sortNumbers(xs) ==
    IF xs = <<>> THEN <<>>
    ELSE LET i == CHOOSE k \in 1..Len(xs) : \A j \in 1..Len(xs) : xs[k] <= xs[j]
         IN <<xs[i]>> \o sortNumbers(SubSeq(xs, 1, i - 1) \o SubSeq(xs, i + 1, Len(xs)))

\* sorted[idx] of a JavaScript array (idx counted from 0)
arrayAt(arr, idx) ==
    IF idx >= 0 /\ idx < Len(arr) THEN Num(arr[idx + 1]) ELSE Undefined

SeqMin(xs) == CHOOSE m \in {xs[i] : i \in 1..Len(xs)} : \A j \in 1..Len(xs) : m <= xs[j]
SeqMax(xs) == CHOOSE m \in {xs[i] : i \in 1..Len(xs)} : \A j \in 1..Len(xs) : m >= xs[j]

\* Math.ceil(n / 100) for an integer n
ceilDiv100(n) == 0 - ((0 - n) \div 100)

EmptyStyle == [p \in {} |-> Undefined]

\* { ...a, ...b }
mergeStyle(a, b) ==
    [p \in (DOMAIN a) \cup (DOMAIN b) |-> IF p \in DOMAIN b THEN b[p] ELSE a[p]]

\* { color: ..., backgroundColor: ..., fontWeight: ..., fontStyle: ... }
ruleStyle(r) ==
    [color |-> r.style.fontColor,
     backgroundColor |-> r.style.bgColor,
     fontWeight |-> IF ~Falsy(r.style.bold) THEN <<"bold">> ELSE Undefined,
     fontStyle |-> IF ~Falsy(r.style.italic) THEN <<"italic">> ELSE Undefined]

\* the match of a cellValue rule, v1 and v2 being its parsed operands
cellValueCompare(r, cellValue, numValue, v1, v2) ==
    IF numValue = NaN
    THEN \/ r.operator = "contains"
            /\ includes(String(cellValue), String(r.value1))
         \/ r.operator = "eq" /\ String(cellValue) = String(r.value1)
         \/ r.operator = "neq" /\ String(cellValue) # String(r.value1)
    ELSE CASE r.operator = "gt" -> v1 # NaN /\ numValue[2] > v1[2]
           [] r.operator = "lt" -> v1 # NaN /\ numValue[2] < v1[2]
           [] r.operator = "gte" -> v1 # NaN /\ numValue[2] >= v1[2]
           [] r.operator = "lte" -> v1 # NaN /\ numValue[2] <= v1[2]
           [] r.operator = "eq" -> numValue = v1
           [] r.operator = "neq" -> numValue # v1
           [] r.operator = "between" ->
                 /\ v1 # NaN /\ v2 # NaN
                 /\ numValue[2] >= v1[2] /\ numValue[2] <= v2[2]
           [] OTHER -> FALSE

cellValueMatch(r, cellValue, numValue) ==
    cellValueCompare(r, cellValue, numValue, parseFloat(String(r.value1)),
                     IF Falsy(r.value2) THEN Num(0)
                     ELSE parseFloat(String(r.value2)))

\* variant: the threshold is taken one place too far from the end
topBottomThreshold_offByOne(r, sorted, count) ==
    IF r.percent
    THEN IF r.mode = "top" THEN arrayAt(sorted, Len(sorted) - count - 1)
         ELSE arrayAt(sorted, count)
    ELSE IF r.mode = "top"
         THEN arrayAt(sorted, IF Len(sorted) - r.count - 1 > 0
                              THEN Len(sorted) - r.count - 1 ELSE 0)
         ELSE arrayAt(sorted, IF Len(sorted) - 1 < r.count
                              THEN Len(sorted) - 1 ELSE r.count)

\* the threshold of a topBottom rule; count is Math.ceil(len * (count / 100))
topBottomThreshold(r, sorted, count) ==
    IF r.percent
    THEN IF r.mode = "top" THEN arrayAt(sorted, Len(sorted) - count)
         ELSE arrayAt(sorted, count - 1)
    ELSE IF r.mode = "top"
         THEN arrayAt(sorted, IF Len(sorted) - r.count > 0
                              THEN Len(sorted) - r.count ELSE 0)
         ELSE arrayAt(sorted, IF Len(sorted) - 1 < r.count - 1
                              THEN Len(sorted) - 1 ELSE r.count - 1)

\* value >= threshold (top) or value <= threshold (bottom)
topBottomCompare(r, numValue, threshold) ==
    /\ threshold # Undefined
    /\ IF r.mode = "top" THEN numValue[2] >= threshold[2]
       ELSE numValue[2] <= threshold[2]

\* the match of a topBottom rule on a numeric cell
topBottomMatch(r, numValue, columnValues) ==
    topBottomCompare(r, numValue,
        topBottomThreshold(r, sortNumbers(columnValues),
                           ceilDiv100(Len(columnValues) * r.count)))

\* if (min !== max) style.backgroundColor = getColorFromScale(...)
colorScaleBetween(r, numValue, min, max) ==
    IF min # max
    THEN [backgroundColor |->
             getColorFromScale(numValue[2], min, max, r.minColor, r.maxColor,
                               r.midColor)]
    ELSE EmptyStyle

\* the style contribution of a colorScale rule on a numeric cell
colorScaleStyle(r, numValue, columnValues) ==
    IF columnValues = <<>>
    THEN \* min = Infinity, max = -Infinity: value <= min
         [backgroundColor |-> r.minColor]
    ELSE colorScaleBetween(r, numValue, SeqMin(columnValues),
                           SeqMax(columnValues))

RECURSIVE applyRules(_, _, _, _, _)
applyRules(style, cellValue, numValue, rules, columnValues) ==
    IF rules = <<>> THEN style
    ELSE LET r == Head(rules)
             next ==
                 IF r.type = "cellValue"
                 THEN IF cellValueMatch(r, cellValue, numValue)
                      THEN mergeStyle(style, ruleStyle(r)) ELSE style
                 ELSE IF r.type = "topBottom" /\ numValue # NaN
                 THEN IF topBottomMatch(r, numValue, columnValues)
                      THEN mergeStyle(style, ruleStyle(r)) ELSE style
                 ELSE IF r.type = "colorScale" /\ numValue # NaN
                 THEN mergeStyle(style, colorScaleStyle(r, numValue, columnValues))
                 ELSE style
         IN applyRules(next, cellValue, numValue, Tail(rules), columnValues)

applyConditionalFormatting(cellValue, rules, columnValues) ==
    IF cellValue = Null THEN EmptyStyle
    ELSE applyRules(EmptyStyle, cellValue,
                    IF IsNum(cellValue) THEN cellValue
                    ELSE parseFloat(String(cellValue)),
                    rules, columnValues)

(***************************************************************************)
(* processPivotData: row headers                                           *)
(***************************************************************************)
BoldStyle == [fontWeight |-> <<"bold">>]

\* totalsConfig?.columnTotalsLabel || 'Grand Total'
totalLabel(tc) ==
    IF tc.defined /\ ~Falsy(tc.columnTotalsLabel)
    THEN tc.columnTotalsLabel[2] ELSE GrandTotal

\* the row header cells of one row key, before the spans are computed
rowHeaderOf(rKey, rows, gCols, tc) ==
    IF rKey = TOTAL_KEY
    THEN [idx \in 1..Len(gCols) |->
            [value |-> IF idx = 1 THEN totalLabel(tc) ELSE <<>>,
             rowSpan |-> 1,
             colSpan |-> IF idx = 1 THEN Len(gCols) ELSE 1,
             isVisible |-> (idx = 1),
             style |-> BoldStyle]]
    ELSE LET rowData == firstRowWithKey(rows, gCols, rKey)
         IN [idx \in 1..Len(gCols) |->
                LET v == Get(rowData, gCols[idx].id)
                IN [value |-> IF Falsy(v) THEN Blank ELSE String(v),
                    rowSpan |-> 1,
                    colSpan |-> 1,
                    isVisible |-> TRUE,
                    style |-> EmptyStyle]]

\* variant: a merged cell stays visible
RECURSIVE spanLevel_keepVisible(_, _, _, _, _)
spanLevel_keepVisible(h, j, i, startRow, endIndex) ==
    IF i > endIndex THEN h
    ELSE LET parentsMatch ==
                 \A p \in 1..(j - 1) : h[i][p].value = h[i - 1][p].value
         IN IF h[i][j].value = h[i - 1][j].value /\ parentsMatch
            THEN spanLevel_keepVisible([h EXCEPT ![startRow][j].rowSpan = @ + 1],
                                       j, i + 1, startRow, endIndex)
            ELSE spanLevel_keepVisible(h, j, i + 1, i, endIndex)

\* variant: a label is merged with the one above whatever the parent levels
RECURSIVE spanLevel_ignoreParents(_, _, _, _, _)
spanLevel_ignoreParents(h, j, i, startRow, endIndex) ==
    IF i > endIndex THEN h
    ELSE IF h[i][j].value = h[i - 1][j].value
         THEN spanLevel_ignoreParents([h EXCEPT ![startRow][j].rowSpan = @ + 1,
                                                ![i][j].isVisible = FALSE],
                                      j, i + 1, startRow, endIndex)
         ELSE spanLevel_ignoreParents(h, j, i + 1, i, endIndex)

\* the inner loop of "Calculate spans" at level j, from row i on (rows and
\* levels counted from 1)
RECURSIVE spanLevel(_, _, _, _, _)
spanLevel(h, j, i, startRow, endIndex) ==
    IF i > endIndex THEN h
    ELSE LET parentsMatch ==
                 \A p \in 1..(j - 1) : h[i][p].value = h[i - 1][p].value
         IN IF h[i][j].value = h[i - 1][j].value /\ parentsMatch
            THEN spanLevel([h EXCEPT ![startRow][j].rowSpan = @ + 1,
                                     ![i][j].isVisible = FALSE],
                           j, i + 1, startRow, endIndex)
            ELSE spanLevel(h, j, i + 1, i, endIndex)

RECURSIVE calculateSpans(_, _, _, _)
calculateSpans(h, j, nLevels, tc) ==
    IF j > nLevels THEN h
    ELSE LET startIndex ==
                 IF showColumnTotals(tc) /\ tc.columnTotalsPosition = "top"
                 THEN 2 ELSE 1
             endIndex ==
                 IF showColumnTotals(tc) /\ tc.columnTotalsPosition = "bottom"
                 THEN Len(h) - 1 ELSE Len(h)
         IN calculateSpans(spanLevel(h, j, startIndex + 1, startIndex, endIndex),
                           j + 1, nLevels, tc)

\* childHeader.style = { ...childHeader.style, ...style } over the spanned
\* rows and the deeper levels
propagateStyle(h, rowIdx, colIdx, rowSpan, style) ==
    [r \in 1..Len(h) |->
        [c \in 1..Len(h[r]) |->
            IF r >= rowIdx /\ r < rowIdx + rowSpan /\ c > colIdx
            THEN [h[r][c] EXCEPT !.style = mergeStyle(@, style)]
            ELSE h[r][c]]]

\* the row headers after the style of one header cell is set and propagated
formatRowHeader(h, rowIdx, colIdx, style) ==
    IF h[rowIdx][colIdx].isVisible /\ h[rowIdx][colIdx].value # GrandTotal
       /\ DOMAIN style # {}
    THEN propagateStyle([h EXCEPT ![rowIdx][colIdx].style = style],
                        rowIdx, colIdx, h[rowIdx][colIdx].rowSpan, style)
    ELSE h

\* "Apply conditional formatting to row headers", from (colIdx, rowIdx) on
RECURSIVE formatRowHeaders(_, _, _, _)
formatRowHeaders(h, gCols, colIdx, rowIdx) ==
    IF colIdx > Len(gCols) THEN h
    ELSE IF rowIdx > Len(h) \/ Len(gCols[colIdx].conditionalFormats) = 0
    THEN formatRowHeaders(h, gCols, colIdx + 1, 1)
    ELSE formatRowHeaders(
             formatRowHeader(h, rowIdx, colIdx,
                 applyConditionalFormatting(
                     Str(h[rowIdx][colIdx].value),
                     gCols[colIdx].conditionalFormats, <<>>)),
             gCols, colIdx, rowIdx + 1)

\* 5. Generate Row Headers (with spans and conditional formatting)
buildRowHeaders(sortedRowKeys, rows, gCols, tc) ==
    formatRowHeaders(
        calculateSpans(
            [i \in 1..Len(sortedRowKeys) |->
                rowHeaderOf(sortedRowKeys[i], rows, gCols, tc)],
            1, Len(gCols), tc),
        gCols, 1, 1)

(***************************************************************************)
(* processPivotData: data matrix                                           *)
(***************************************************************************)
\* val ?? fallback, on undefined
orElse(val, fallback) == IF val # Undefined THEN val ELSE fallback

\* if (fieldName) val = cMap.get(fieldName)
getMapped(cMap, fieldName) ==
    IF fieldName # Undefined /\ fieldName[2] # <<>>
    THEN Get(cMap, fieldName[2]) ELSE Undefined

\* the case-insensitive search of the cell's keys
getMatchedKey(cMap, vc, normalizedId) ==
    IF vc.name = <<>> THEN Undefined
    ELSE getMapped(cMap,
             FindKey(Keys(cMap),
                     LAMBDA key :
                         \/ toLowerCase(key) = toLowerCase(vc.id)
                         \/ toLowerCase(key) = toLowerCase(normalizedId)
                         \/ toLowerCase(key) = toLowerCase(vc.name)))

\* the value of a value column in one cell of valueMap
lookupInCell(cMap, vc, mappedFieldName, normalizedId) ==
    orElse(orElse(orElse(orElse(Get(cMap, vc.id),
                                getMapped(cMap, mappedFieldName)),
                         Get(cMap, normalizedId)),
                  getMatchedKey(cMap, vc, normalizedId)),
           Null)

\* the raw value of one slot of the data matrix
lookupValue(valueMap, rKey, cKey, vc, mapping) ==
    IF ~hasCellMap(valueMap, rKey, cKey) THEN Null
    ELSE lookupInCell(cellMap(valueMap, rKey, cKey), vc, Get(mapping, vc.id),
                      normalizeId(vc.id))

\* variant: the matrix is filled before the total column key is injected
rawMatrix_noTotalColumn(valueMap, sortedRowKeys, colKeys, vCols, mapping) ==
    LET keys == SelectSeq(colKeys, LAMBDA c : c # TOTAL_KEY)
    IN [i \in 1..Len(sortedRowKeys) |->
           [s \in 1..(Len(keys) * Len(vCols)) |->
               lookupValue(valueMap, sortedRowKeys[i],
                           keys[((s - 1) \div Len(vCols)) + 1],
                           vCols[((s - 1) % Len(vCols)) + 1], mapping)]]

\* variant: the slots are laid out value-column-major
rawMatrix_valueMajor(valueMap, sortedRowKeys, colKeys, vCols, mapping) ==
    [i \in 1..Len(sortedRowKeys) |->
        [s \in 1..(Len(colKeys) * Len(vCols)) |->
            lookupValue(valueMap, sortedRowKeys[i],
                        colKeys[((s - 1) % Len(colKeys)) + 1],
                        vCols[((s - 1) \div Len(colKeys)) + 1], mapping)]]

\* 6. Generate Data Matrix: one row per row key, column-key-major
rawMatrix(valueMap, sortedRowKeys, colKeys, vCols, mapping) ==
    [i \in 1..Len(sortedRowKeys) |->
        [s \in 1..(Len(colKeys) * Len(vCols)) |->
            lookupValue(valueMap, sortedRowKeys[i],
                        colKeys[((s - 1) \div Len(vCols)) + 1],
                        vCols[((s - 1) % Len(vCols)) + 1], mapping)]]

\* variant: the last row of the matrix is left out of the population
RECURSIVE colValuesOf_skipLast(_, _, _)
colValuesOf_skipLast(raw, s, r) ==
    IF r >= Len(raw) THEN <<>>
    ELSE LET v == raw[r][s]
         IN (IF IsNum(v) THEN <<v[2]>>
             ELSE IF IsStr(v) /\ parseFloat(v[2]) # NaN
             THEN <<parseFloat(v[2])[2]>>
             ELSE <<>>) \o colValuesOf_skipLast(raw, s, r + 1)

\* the numeric values of one slot over all the rows of the matrix
RECURSIVE colValuesOf(_, _, _)
colValuesOf(raw, s, r) ==
    IF r > Len(raw) THEN <<>>
    ELSE LET v == raw[r][s]
         IN (IF IsNum(v) THEN <<v[2]>>
             ELSE IF IsStr(v) /\ parseFloat(v[2]) # NaN
             THEN <<parseFloat(v[2])[2]>>
             ELSE <<>>) \o colValuesOf(raw, s, r + 1)

\* combinedStyle after the group column rules of levels g..
RECURSIVE rowDimensionStyle(_, _, _, _)
rowDimensionStyle(style, headerRow, gCols, g) ==
    IF g > Len(gCols) THEN style
    ELSE rowDimensionStyle(
             IF Len(gCols[g].conditionalFormats) > 0
                /\ headerRow[g].value # GrandTotal
             THEN mergeStyle(style,
                      applyConditionalFormatting(
                          Str(headerRow[g].value), gCols[g].conditionalFormats, <<>>))
             ELSE style,
             headerRow, gCols, g + 1)

\* combinedStyle after the pivot column rules of levels l..
RECURSIVE pivotDimensionStyle(_, _, _, _)
pivotDimensionStyle(style, pivotValues, pCols, l) ==
    IF l > Len(pCols) THEN style
    ELSE pivotDimensionStyle(
             IF Len(pCols[l].conditionalFormats) > 0
             THEN mergeStyle(style,
                      applyConditionalFormatting(
                          Str(IF l <= Len(pivotValues) THEN pivotValues[l] ELSE <<>>),
                          pCols[l].conditionalFormats, <<>>))
             ELSE style,
             pivotValues, pCols, l + 1)

\* the style of the data cell (rowIdx, s)
\* combinedStyle after the pivot column rules of one column key
columnKeyStyle(style, pivotKey, pCols) ==
    IF pivotKey # <<>> /\ pivotKey # TOTAL_KEY
    THEN pivotDimensionStyle(style, split(pivotKey), pCols, 1) ELSE style

\* combinedStyle after the value column rules (highest priority)
valueColumnStyle(style, raw, valueCol, rowIdx, s) ==
    IF Len(valueCol.conditionalFormats) > 0
    THEN mergeStyle(style,
             applyConditionalFormatting(raw[rowIdx][s],
                 valueCol.conditionalFormats, colValuesOf(raw, s, 1)))
    ELSE style

cellStyle(raw, rowHeaders, colKeys, gCols, pCols, vCols, rowIdx, s) ==
    valueColumnStyle(
        columnKeyStyle(
            rowDimensionStyle(EmptyStyle, rowHeaders[rowIdx], gCols, 1),
            colKeys[((s - 1) \div Len(vCols)) + 1], pCols),
        raw, vCols[((s - 1) % Len(vCols)) + 1], rowIdx, s)

buildDataMatrix(raw, rowHeaders, colKeys, gCols, pCols, vCols) ==
    [i \in 1..Len(raw) |->
        [s \in 1..Len(raw[i]) |->
            [value |-> raw[i][s],
             style |-> IF s <= Len(raw[1])
                       THEN cellStyle(raw, rowHeaders, colKeys, gCols, pCols,
                                      vCols, i, s)
                       ELSE EmptyStyle]]]

(***************************************************************************)
(* processPivotData: column headers                                        *)
(***************************************************************************)
\* colKeys.flatMap(k => valueCols.map(v => ({ pivotKey: k, valueCol: v })))
expandedKeysOf(colKeys, vCols) ==
    [s \in 1..(Len(colKeys) * Len(vCols)) |->
        [pivotKey |-> colKeys[((s - 1) \div Len(vCols)) + 1],
         valueCol |-> vCols[((s - 1) % Len(vCols)) + 1]]]

\* pivotValues[level] of a split key, undefined beyond its end
pivotValueAt(pivotKey, level) ==
    LET pivotValues == split(pivotKey)
    IN IF level <= Len(pivotValues) THEN Str(pivotValues[level]) ELSE Undefined

\* the label of one expanded key at a level (levels counted from 1)
headerLabel(item, level) ==
    IF item.pivotKey = TOTAL_KEY
    THEN IF level = 1 THEN GrandTotal ELSE <<>>
    ELSE LET v == pivotValueAt(item.pivotKey, level)
         IN IF Falsy(v) THEN <<>> ELSE v[2]

headerParentsMatch(expandedKeys, index, level) ==
    IF index = 1 THEN TRUE
    ELSE LET item == expandedKeys[index]
             prevItem == expandedKeys[index - 1]
         IN IF prevItem.pivotKey = TOTAL_KEY /\ item.pivotKey = TOTAL_KEY
            THEN TRUE
            ELSE IF prevItem.pivotKey # TOTAL_KEY /\ item.pivotKey # TOTAL_KEY
            THEN \A p \in 1..(level - 1) :
                    pivotValueAt(item.pivotKey, p)
                        = pivotValueAt(prevItem.pivotKey, p)
            ELSE FALSE

headerCell(label, span, tc) ==
    [label |-> label,
     colSpan |-> span,
     style |-> IF label = totalLabel(tc) THEN BoldStyle ELSE EmptyStyle]

\* variant: the header cell still open after the loop is not pushed
RECURSIVE headerLevel_noFinalPush(_, _, _, _, _, _, _)
headerLevel_noFinalPush(row, currentLabel, currentSpan, expandedKeys, index, level, tc) ==
    IF index > Len(expandedKeys) THEN row
    ELSE LET label == headerLabel(expandedKeys[index], level)
         IN IF Str(label) = currentLabel
               /\ headerParentsMatch(expandedKeys, index, level) /\ index > 1
            THEN headerLevel_noFinalPush(row, currentLabel, currentSpan + 1,
                                         expandedKeys, index + 1, level, tc)
            ELSE headerLevel_noFinalPush(
                     IF currentLabel # Null
                     THEN Append(row, headerCell(currentLabel[2], currentSpan, tc))
                     ELSE row,
                     Str(label), 1, expandedKeys, index + 1, level, tc)

\* expandedKeys.forEach((item, index) => ...) of one level, from index on;
\* currentLabel is Null or a string
RECURSIVE headerLevel(_, _, _, _, _, _, _)
headerLevel(row, currentLabel, currentSpan, expandedKeys, index, level, tc) ==
    IF index > Len(expandedKeys)
    THEN IF currentLabel # Null
         THEN Append(row, headerCell(currentLabel[2], currentSpan, tc)) ELSE row
    ELSE LET label == headerLabel(expandedKeys[index], level)
         IN IF Str(label) = currentLabel
               /\ headerParentsMatch(expandedKeys, index, level) /\ index > 1
            THEN headerLevel(row, currentLabel, currentSpan + 1, expandedKeys,
                             index + 1, level, tc)
            ELSE headerLevel(
                     IF currentLabel # Null
                     THEN Append(row, headerCell(currentLabel[2], currentSpan, tc))
                     ELSE row,
                     Str(label), 1, expandedKeys, index + 1, level, tc)

\* header.style = style, for a labelled header other than the grand total
formatHeaderCell(header, style) ==
    IF header.label # <<>> /\ header.label # GrandTotal /\ DOMAIN style # {}
    THEN [header EXCEPT !.style = style] ELSE header

\* "Apply conditional formatting to column headers" on one header row
formatHeaderRow(row, pivotCol) ==
    IF Len(pivotCol.conditionalFormats) = 0 THEN row
    ELSE [i \in 1..Len(row) |->
            formatHeaderCell(row[i],
                applyConditionalFormatting(
                    Str(row[i].label), pivotCol.conditionalFormats, <<>>))]

\* 7. Generate Column Headers
headerRowsOf(expandedKeys, pCols, vCols, tc) ==
    LET totalHeaderRows == Len(pCols) + (IF Len(vCols) > 0 THEN 1 ELSE 0)
    IN [level \in 1..totalHeaderRows |->
            IF level <= Len(pCols)
            THEN formatHeaderRow(
                     headerLevel(<<>>, Null, 0, expandedKeys, 1, level, tc),
                     pCols[level])
            ELSE [s \in 1..Len(expandedKeys) |->
                     [label |-> expandedKeys[s].valueCol.name,
                      colSpan |-> 1,
                      style |-> EmptyStyle]]]

buildHeaderRows(colKeys, pCols, vCols, tc) ==
    headerRowsOf(expandedKeysOf(colKeys, vCols), pCols, vCols, tc)

(***************************************************************************)
(* processPivotData                                                        *)
(***************************************************************************)
EmptyResult == [headerRows |-> <<>>, rowHeaders |-> <<>>, dataMatrix |-> <<>>]

\* variant: only an absent dataset is caught
emptyGuard_absentOnly(d) == ~d.defined

\* if (!data || data.length === 0)
emptyGuard(d) == ~d.defined \/ Len(d.rows) = 0

\* sortedRowKeys after step 4
sortedRowKeysOf(rows, gCols, tc) ==
    injectRowTotalKey(uniqueRowKeys(rows, gCols), tc)

\* colKeys after step 4
colKeysOf(rows, pCols, tc) ==
    injectColTotalKey(uniqueColKeys(rows, pCols), tc)

\* fieldNameMapping, built from the first row when there is one
fieldNameMappingOf(rows, vCols) ==
    IF Len(rows) > 0 THEN buildFieldNameMapping(rows[1], vCols, <<>>) ELSE <<>>

\* the statements after the empty guard
\* return { headerRows, rowHeaders, dataMatrix }
pivotResult(raw, rowHeaders, colKeys, gCols, pCols, vCols, tc) ==
    [headerRows |-> buildHeaderRows(colKeys, pCols, vCols, tc),
     rowHeaders |-> rowHeaders,
     dataMatrix |-> buildDataMatrix(raw, rowHeaders, colKeys, gCols, pCols,
                                    vCols)]

\* steps 2 to 7, given the keys of step 1 and the field name mapping
pivotSteps(rows, gCols, pCols, vCols, tc, gc, rc, sortedRowKeys, colKeys, mapping) ==
    pivotResult(
        rawMatrix(buildValueMap(rows, gCols, pCols, vCols, tc, gc, rc, mapping),
                  sortedRowKeys, colKeys, vCols, mapping),
        buildRowHeaders(sortedRowKeys, rows, gCols, tc),
        colKeys, gCols, pCols, vCols, tc)

pivotBody(rows, gCols, pCols, vCols, tc, gc, rc) ==
    pivotSteps(rows, gCols, pCols, vCols, tc, gc, rc,
               sortedRowKeysOf(rows, gCols, tc), colKeysOf(rows, pCols, tc),
               fieldNameMappingOf(rows, vCols))

processPivotData(d, gCols, pCols, vCols, tc, gc, rc) ==
    IF emptyGuard(d) THEN EmptyResult
    ELSE pivotBody(d.rows, gCols, pCols, vCols, tc, gc, rc)

(***************************************************************************)
(* Inputs of the pivot engine                                              *)
(***************************************************************************)
MaxRows == 3
MaxCalls == 2

Column(id, name, formats) ==
    [id |-> id, name |-> name, conditionalFormats |-> formats]

GroupPool == <<Column(<<"g">>, <<"G">>, <<>>), Column(<<"k">>, <<"K">>, <<>>)>>
PivotPool == <<Column(<<"p">>, <<"P">>, <<>>), Column(<<"c">>, <<"L">>, <<>>)>>
ValuePool == <<Column(<<"v">>, <<"N">>, <<>>), Column(<<"S", "a">>, <<"T">>, <<>>)>>

Row6(g, k, p, c, v, sa) ==
    << <<(<<"g">>), g>>, <<(<<"k">>), k>>, <<(<<"p">>), p>>, <<(<<"c">>), c>>,
       <<(<<"v">>), v>>, <<(<<"S", "a">>), sa>> >>

RowPool ==
    <<Row6(Str(<<"a">>), Str(<<"x">>), Str(<<"A">>), Str(<<"m">>), Num(1), Num(5)),
      Row6(Str(<<"a">>), Str(<<"y">>), Str(<<"B">>), Str(<<"m">>), Num(2), Null),
      Row6(Null, Str(<<"x">>), Str(<<"A">>), Str(<<"n">>), Str(<<"4">>), Num(0)),
      Row6(Str(<<"b">>), Str(<<"x">>), Str(<<"A">>), Str(<<"n">>), Num(3), Num(7))>>

\* the column grand totals dataset: one row per pivot combination
GcRows ==
    << << <<(<<"p">>), Str(<<"A">>)>>, <<(<<"c">>), Str(<<"m">>)>>,
          <<(<<"v">>), Num(10)>>, <<(<<"S", "a">>), Str(<<"2", "0">>)>> >>,
       << <<(<<"p">>), Str(<<"B">>)>>, <<(<<"c">>), Str(<<"m">>)>>,
          <<(<<"v">>), Num(11)>>, <<(<<"S", "a">>), Num(21)>> >> >>

\* the row grand totals dataset: one row per group combination
RcRows ==
    << << <<(<<"g">>), Str(<<"a">>)>>, <<(<<"k">>), Str(<<"x">>)>>,
          <<(<<"v">>), Num(30)>>, <<(<<"S", "a">>), Num(40)>> >>,
       << <<(<<"g">>), Str(<<"b">>)>>, <<(<<"k">>), Str(<<"x">>)>>,
          <<(<<"v">>), Str(<<"3", "1">>)>>, <<(<<"S", "a">>), Null>> >> >>

Prefixes(pool) == {SubSeq(pool, 1, n) : n \in 0..Len(pool)}

\* the datasets: up to MaxRows distinct rows of the pool, in any order
RowSeqs ==
    UNION {{[i \in 1..n |-> RowPool[f[i]]] :
               f \in {h \in [1..n -> 1..Len(RowPool)] :
                         \A i, j \in 1..n : h[i] = h[j] => i = j}}
           : n \in 0..MaxRows}

\* a position is varied when its flag is on and held otherwise
TotalsConfigs ==
    {NoConfig} \cup
    {tc \in [defined : {TRUE}, showRowTotals : BOOLEAN,
             rowTotalsPosition : {"left", "right"},
             showColumnTotals : BOOLEAN,
             columnTotalsPosition : {"top", "bottom"},
             showSubtotals : {FALSE}, columnTotalsLabel : {Undefined}]
        : /\ tc.showRowTotals \/ tc.rowTotalsPosition = "right"
          /\ tc.showColumnTotals \/ tc.columnTotalsPosition = "bottom"}

Inputs ==
    [data |-> data, gcData |-> gcData, rcData |-> rcData,
     groupCols |-> groupCols, pivotCols |-> pivotCols, valueCols |-> valueCols,
     totalsConfig |-> totalsConfig]

NoStyles == <<>>

FormatIdle ==
    /\ column = <<>>
    /\ columnRules = <<>>
    /\ styled = NoStyles

InitPivot ==
    /\ data \in {NoData} \cup {Dataset(rs) : rs \in RowSeqs}
    /\ \E both \in BOOLEAN :
          /\ gcData = IF both THEN Dataset(GcRows) ELSE NoData
          /\ rcData = IF both THEN Dataset(RcRows) ELSE NoData
    /\ groupCols \in Prefixes(GroupPool)
    /\ pivotCols \in Prefixes(PivotPool)
    /\ valueCols \in Prefixes(ValuePool)
    /\ totalsConfig \in TotalsConfigs
    /\ result = NoResult
    /\ prevResult = NoResult
    /\ calls = 0
    /\ input0 = Inputs
    /\ trace = [sortedRowKeys |-> <<>>, colKeys |-> <<>>]
    /\ FormatIdle
    /\ CsvIdle
    /\ ShellIdle

\* variant: the call sorts the rows of the dataset in place by row key
RECURSIVE sortRowsByKey(_, _)
sortRowsByKey(rows, gCols) ==
    IF rows = <<>> THEN <<>>
    ELSE LET i == CHOOSE k \in 1..Len(rows) :
                     \A j \in 1..Len(rows) :
                         \/ ~StrLess(keyOf(rows[j], gCols), keyOf(rows[k], gCols))
                         \/ j = k
                  \* the first row among those of the least key
                  m == CHOOSE k \in 1..Len(rows) :
                     /\ keyOf(rows[k], gCols) = keyOf(rows[i], gCols)
                     /\ \A j \in 1..(k - 1) :
                            keyOf(rows[j], gCols) # keyOf(rows[i], gCols)
         IN <<rows[m]>> \o sortRowsByKey(SubSeq(rows, 1, m - 1)
                                          \o SubSeq(rows, m + 1, Len(rows)), gCols)

CallProcessPivotData_sortsInPlace ==
    /\ calls < MaxCalls
    /\ result' = processPivotData(data, groupCols, pivotCols, valueCols,
                                  totalsConfig, gcData, rcData)
    /\ prevResult' = result
    /\ calls' = calls + 1
    /\ trace' = IF emptyGuard(data)
                THEN [sortedRowKeys |-> <<>>, colKeys |-> <<>>]
                ELSE [sortedRowKeys |->
                          sortedRowKeysOf(data.rows, groupCols, totalsConfig),
                      colKeys |-> colKeysOf(data.rows, pivotCols, totalsConfig)]
    /\ data' = [data EXCEPT !.rows = sortRowsByKey(data.rows, groupCols)]
    /\ UNCHANGED <<gcData, rcData, groupCols, pivotCols, valueCols,
                   totalsConfig, input0>>
    /\ UNCHANGED formatVars
    /\ UNCHANGED csv
    /\ UNCHANGED shellVars

\* one call of processPivotData on the current inputs; the function assigns
\* to none of its arguments
CallProcessPivotData ==
    /\ calls < MaxCalls
    /\ result' = processPivotData(data, groupCols, pivotCols, valueCols,
                                  totalsConfig, gcData, rcData)
    /\ prevResult' = result
    /\ calls' = calls + 1
    /\ trace' = IF emptyGuard(data)
                THEN [sortedRowKeys |-> <<>>, colKeys |-> <<>>]
                ELSE [sortedRowKeys |->
                          sortedRowKeysOf(data.rows, groupCols, totalsConfig),
                      colKeys |-> colKeysOf(data.rows, pivotCols, totalsConfig)]
    /\ UNCHANGED <<data, gcData, rcData, groupCols, pivotCols, valueCols,
                   totalsConfig, input0>>
    /\ UNCHANGED formatVars
    /\ UNCHANGED csv
    /\ UNCHANGED shellVars

NextPivot == CallProcessPivotData

SpecPivot == InitPivot /\ [][NextPivot]_vars

(***************************************************************************)
(* Properties of processPivotData                                          *)
(***************************************************************************)
RECURSIVE SumSeq(_)
SumSeq(xs) == IF xs = <<>> THEN 0 ELSE Head(xs) + SumSeq(Tail(xs))

\* a call has returned for a non-empty dataset
Returned == calls > 0 /\ ~emptyGuard(data)

\* the column key of an input row
colKeyOfRow(row) == IF Len(pivotCols) > 0 THEN keyOf(row, pivotCols) ELSE <<>>

\* the number of row keys and of column keys, TOTAL counted when enabled
NumRowKeys ==
    Cardinality({keyOf(data.rows[n], groupCols) : n \in 1..Len(data.rows)})
    + (IF showColumnTotals(totalsConfig) THEN 1 ELSE 0)

NumColKeys ==
    Cardinality({colKeyOfRow(data.rows[n]) : n \in 1..Len(data.rows)})
    + (IF showRowTotals(totalsConfig) THEN 1 ELSE 0)

\* C1: for a non-empty dataset every row of dataMatrix has
\* (#column keys) x (#value columns) cells, and rowHeaders and dataMatrix have
\* one entry per row key, the TOTAL keys counted when their totals are on.
C1_MatrixShape ==
    Returned =>
        /\ Len(result.rowHeaders) = NumRowKeys
        /\ Len(result.dataMatrix) = NumRowKeys
        /\ \A i \in 1..Len(result.dataMatrix) :
              Len(result.dataMatrix[i]) = NumColKeys * Len(valueCols)

C1_Witness ==
    /\ Returned
    /\ showRowTotals(totalsConfig) /\ showColumnTotals(totalsConfig)
    /\ Len(valueCols) = 2 /\ Len(pivotCols) = 1 /\ Len(groupCols) = 2
    /\ Len(result.dataMatrix) = 4
    /\ Len(result.dataMatrix[1]) = 6

\* each (RowKey, ColumnKey) pair occurs in at most one input row
PairsUnique ==
    \A m, n \in 1..Len(data.rows) :
        (/\ keyOf(data.rows[m], groupCols) = keyOf(data.rows[n], groupCols)
         /\ colKeyOfRow(data.rows[m]) = colKeyOfRow(data.rows[n])) => m = n

\* the value the engine resolves for a value column in an input row, null
\* when it resolves none
valueInRow(row, vc) ==
    orElse(resolveValue(row, vc, valueCols,
                        fieldNameMappingOf(data.rows, valueCols)),
           Null)

\* C2: with unique (RowKey, ColumnKey) pairs, the cell at [i][j*V+k] is the
\* value of the k-th value column in the input row of the i-th row key and
\* the j-th column key, and null when there is no such row.
C2_CellPlacement ==
    (Returned /\ PairsUnique) =>
        \A i \in 1..Len(trace.sortedRowKeys) :
        \A j \in 1..Len(trace.colKeys) :
        \A k \in 1..Len(valueCols) :
            (trace.sortedRowKeys[i] # TOTAL_KEY /\ trace.colKeys[j] # TOTAL_KEY) =>
                LET hits == {n \in 1..Len(data.rows) :
                                /\ keyOf(data.rows[n], groupCols)
                                      = trace.sortedRowKeys[i]
                                /\ colKeyOfRow(data.rows[n]) = trace.colKeys[j]}
                    cellValue ==
                        result.dataMatrix[i][(j - 1) * Len(valueCols) + k].value
                IN IF hits = {} THEN cellValue = Null
                   ELSE \A n \in hits :
                           cellValue = valueInRow(data.rows[n], valueCols[k])

\* rows a/A/1, a/B/2, b/A/3 grouped by g, pivoted by p, valued by v
C2_Witness ==
    /\ Returned
    /\ data.rows = <<RowPool[1], RowPool[2], RowPool[4]>>
    /\ Len(groupCols) = 1 /\ Len(pivotCols) = 1 /\ Len(valueCols) = 1
    /\ ~showRowTotals(totalsConfig) /\ ~showColumnTotals(totalsConfig)
    /\ trace.sortedRowKeys = << <<"a">>, <<"b">> >>
    /\ trace.colKeys = << <<"A">>, <<"B">> >>
    /\ [i \in 1..2 |-> [s \in 1..2 |-> result.dataMatrix[i][s].value]]
          = << <<Num(1), Num(2)>>, <<Num(3), Null>> >>

\* the sum of rowSpan over the visible cells of group-column level j
visibleRowSpan(j) ==
    SumSeq([i \in 1..Len(result.rowHeaders) |->
               IF result.rowHeaders[i][j].isVisible
               THEN result.rowHeaders[i][j].rowSpan ELSE 0])

\* C3 as stated: at every group-column level the rowSpans of the visible
\* cells add up to the number of output rows, the grand-total row included.
C3_AsStated ==
    Returned =>
        \A j \in 1..Len(groupCols) :
            visibleRowSpan(j) = Len(result.rowHeaders)

\* C3 as amended: the rowSpans of the visible cells add up to the number of
\* output rows at the first level and to the number of non-total rows at the
\* deeper levels, which the one visible cell of the grand-total row covers
\* with colSpan = number of group columns.
C3_RowSpanSums ==
    Returned =>
        /\ \A j \in 1..Len(groupCols) :
              visibleRowSpan(j) =
                  Len(result.rowHeaders)
                  - (IF showColumnTotals(totalsConfig) /\ j > 1 THEN 1 ELSE 0)
        /\ \A i \in 1..Len(result.rowHeaders) :
              trace.sortedRowKeys[i] = TOTAL_KEY =>
                  \A j \in 1..Len(groupCols) :
                      /\ result.rowHeaders[i][j].isVisible = (j = 1)
                      /\ result.rowHeaders[i][j].rowSpan = 1
                      /\ j = 1 => result.rowHeaders[i][j].colSpan = Len(groupCols)

C3_Witness ==
    /\ Returned
    /\ Len(groupCols) = 2
    /\ showColumnTotals(totalsConfig)
    /\ Len(result.rowHeaders) = 4
    /\ \E i \in 1..4 : result.rowHeaders[i][1].rowSpan = 2
    /\ \E i \in 1..4 : ~result.rowHeaders[i][1].isVisible

\* C4: in every header row the colSpans add up to
\* (#column keys) x (#value columns), TOTAL counted when enabled.
C4_ColSpanSums ==
    Returned =>
        /\ Len(result.headerRows)
              = Len(pivotCols) + (IF Len(valueCols) > 0 THEN 1 ELSE 0)
        /\ \A l \in 1..Len(result.headerRows) :
              SumSeq([c \in 1..Len(result.headerRows[l]) |->
                         result.headerRows[l][c].colSpan])
                  = NumColKeys * Len(valueCols)

C4_Witness ==
    /\ Returned
    /\ Len(pivotCols) = 2 /\ Len(valueCols) = 2
    /\ showRowTotals(totalsConfig)
    /\ \E c \in 1..Len(result.headerRows[1]) :
          result.headerRows[1][c].colSpan = 4
    /\ Len(result.headerRows[3]) = 8

\* the number of occurrences of x in a sequence
Occurrences(xs, x) == Cardinality({i \in 1..Len(xs) : xs[i] = x})

\* C5: the TOTAL key occurs exactly once, at the configured edge, in the
\* column keys when showRowTotals is on and in the row keys when
\* showColumnTotals is on, and does not occur when the flag is off.
C5_TotalPlacement ==
    Returned =>
        /\ IF showRowTotals(totalsConfig)
           THEN /\ Occurrences(trace.colKeys, TOTAL_KEY) = 1
                /\ totalsConfig.rowTotalsPosition = "right" =>
                      trace.colKeys[Len(trace.colKeys)] = TOTAL_KEY
                /\ totalsConfig.rowTotalsPosition = "left" =>
                      trace.colKeys[1] = TOTAL_KEY
           ELSE Occurrences(trace.colKeys, TOTAL_KEY) = 0
        /\ IF showColumnTotals(totalsConfig)
           THEN /\ Occurrences(trace.sortedRowKeys, TOTAL_KEY) = 1
                /\ totalsConfig.columnTotalsPosition = "top" =>
                      trace.sortedRowKeys[1] = TOTAL_KEY
                /\ totalsConfig.columnTotalsPosition = "bottom" =>
                      trace.sortedRowKeys[Len(trace.sortedRowKeys)] = TOTAL_KEY
           ELSE Occurrences(trace.sortedRowKeys, TOTAL_KEY) = 0
        \* the keys are those of the returned headers and matrix
        /\ Len(trace.sortedRowKeys) = Len(result.rowHeaders)
        /\ Len(trace.colKeys) * Len(valueCols)
              = (IF Len(valueCols) > 0
                 THEN Len(result.headerRows[Len(result.headerRows)]) ELSE 0)

C5_Witness ==
    /\ Returned
    /\ showRowTotals(totalsConfig) /\ totalsConfig.rowTotalsPosition = "left"
    /\ showColumnTotals(totalsConfig) /\ totalsConfig.columnTotalsPosition = "top"
    /\ Len(trace.colKeys) = 3 /\ trace.colKeys[1] = TOTAL_KEY
    /\ Len(trace.sortedRowKeys) = 3 /\ trace.sortedRowKeys[1] = TOTAL_KEY

C10_EmptyResult ==
    (calls > 0 /\ (~data.defined \/ Len(data.rows) = 0)) =>
        result = EmptyResult

C10_Witness ==
    /\ calls > 0
    /\ data = Dataset(<<>>)
    /\ showRowTotals(totalsConfig) /\ showColumnTotals(totalsConfig)
    /\ gcData.defined /\ rcData.defined
    /\ Len(valueCols) = 2
    /\ result = EmptyResult

(***************************************************************************)
(* Formatting of one column slot: the value column rules are evaluated on  *)
(* every cell of the slot, with the numeric values of the slot over all    *)
(* the rows as column population (cell formatting loop of                  *)
(* processPivotData, step 3).                                              *)
(***************************************************************************)
MaxColumnLen == 3
MaxCellValue == 3

CellValues == {Null} \cup {Num(n) : n \in 0..MaxCellValue}

\* the column 1, 2, ..., 10
OneToTen == [i \in 1..10 |-> Num(i)]

Columns ==
    {OneToTen} \cup
    UNION {[1..n -> CellValues] : n \in 1..MaxColumnLen}

HighlightStyle ==
    [fontColor |-> Undefined, bgColor |-> Color(255, 255, 0),
     bold |-> Bool(TRUE), italic |-> Undefined]

TopBottomRules ==
    {[type |-> "topBottom", mode |-> m, count |-> c, percent |-> FALSE,
      style |-> HighlightStyle]
        : m \in {"top", "bottom"}, c \in 1..(MaxColumnLen + 1)}
    \cup
    {[type |-> "topBottom", mode |-> m, count |-> c, percent |-> TRUE,
      style |-> HighlightStyle]
        : m \in {"top", "bottom"}, c \in {1, 20, 34, 50, 100, 150}}

ColorScaleRules ==
    {[type |-> "colorScale", scaleType |-> t, minColor |-> lo,
      midColor |-> mid, maxColor |-> Color(0, 128, 0)]
        : t \in {"2-color", "3-color"},
          lo \in {UpperColor(255, 0, 0), Color(248, 105, 107)},
          mid \in {Undefined, Color(255, 235, 132)}}

PivotIdle ==
    /\ data = NoData
    /\ gcData = NoData
    /\ rcData = NoData
    /\ groupCols = <<>>
    /\ pivotCols = <<>>
    /\ valueCols = <<>>
    /\ totalsConfig = NoConfig
    /\ result = NoResult
    /\ prevResult = NoResult
    /\ calls = 0
    /\ input0 = Inputs
    /\ trace = [sortedRowKeys |-> <<>>, colKeys |-> <<>>]

InitFormat ==
    /\ column \in Columns
    /\ columnRules \in {<<r>> : r \in TopBottomRules \cup ColorScaleRules}
    /\ styled = NoStyles
    /\ PivotIdle
    /\ CsvIdle
    /\ ShellIdle

\* the population of the slot: colValues of the cell formatting loop
populationOf(col) == colValuesOf([i \in 1..Len(col) |-> <<col[i]>>], 1, 1)

\* the value column rules applied to every cell of the slot
FormatColumn ==
    /\ styled = NoStyles
    /\ Len(column) > 0
    /\ styled' = [i \in 1..Len(column) |->
                     applyConditionalFormatting(column[i], columnRules,
                                                populationOf(column))]
    /\ UNCHANGED <<column, columnRules>>
    /\ UNCHANGED pivotVars
    /\ UNCHANGED csv
    /\ UNCHANGED shellVars

NextFormat == FormatColumn

SpecFormat == InitFormat /\ [][NextFormat]_vars

Formatted == styled # NoStyles

\* the cells of the slot that hold a number
NumericCells == {i \in 1..Len(column) : IsNum(column[i])}

\* the cells to which the rule contributed a style
Qualifying == {i \in NumericCells : DOMAIN styled[i] # {}}

\* the number of values a topBottom rule asks for over a population of n
Requested(r, n) ==
    IF r.percent THEN (n * r.count + 99) \div 100 ELSE r.count

\* the qualifying cells are the largest (top) or the smallest (bottom) ones
ExtremesQualify(r) ==
    \A i \in Qualifying : \A j \in NumericCells \ Qualifying :
        IF r.mode = "top" THEN column[i][2] > column[j][2]
        ELSE column[i][2] < column[j][2]

C7_ScaleEnds ==
    LET r == columnRules[1]
        pop == populationOf(column)
    IN (Formatted /\ r.type = "colorScale" /\ pop # <<>>
           /\ SeqMin(pop) # SeqMax(pop)) =>
           \A i \in NumericCells :
               /\ column[i][2] = SeqMin(pop) =>
                     /\ "backgroundColor" \in DOMAIN styled[i]
                     /\ styled[i].backgroundColor = r.minColor
               /\ column[i][2] = SeqMax(pop) =>
                     /\ "backgroundColor" \in DOMAIN styled[i]
                     /\ styled[i].backgroundColor = r.maxColor

C7_Witness ==
    /\ Formatted
    /\ columnRules[1].type = "colorScale"
    /\ columnRules[1].scaleType = "3-color"
    /\ columnRules[1].midColor # Undefined
    /\ columnRules[1].minColor = UpperColor(255, 0, 0)
    /\ column = <<Num(0), Num(1), Num(3)>>
    /\ styled[1].backgroundColor = UpperColor(255, 0, 0)
    /\ styled[3].backgroundColor = Color(0, 128, 0)
    /\ styled[2].backgroundColor # UpperColor(255, 0, 0)

(***************************************************************************)
(* Field resolution: datasets whose rows carry the value under a key that  *)
(* is the column id decorated with brackets and surrounding blanks.        *)
(***************************************************************************)
DecoratedKey == <<" ", "[", "S", "a", "]", " ">>

ResolvePool ==
    << << <<(<<"g">>), Str(<<"a">>)>>, <<DecoratedKey, Num(42)>> >>,
       << <<(<<"g">>), Str(<<"b">>)>>, <<(<<"o">>), Num(1)>> >>,
       << <<(<<"g">>), Str(<<"c">>)>>, <<(<<"S">>), Num(7)>>,
          <<DecoratedKey, Num(42)>> >>,
       << <<(<<"g">>), Str(<<"d">>)>>, <<(<<"S", "a">>), Num(5)>> >> >>

ResolveSeqs ==
    UNION {{[i \in 1..n |-> ResolvePool[f[i]]] : f \in [1..n -> 1..Len(ResolvePool)]}
           : n \in 0..MaxRows}

InitResolve ==
    /\ data \in {Dataset(rs) : rs \in ResolveSeqs}
    /\ gcData = NoData
    /\ rcData = NoData
    /\ groupCols = <<GroupPool[1]>>
    /\ pivotCols = <<>>
    /\ valueCols \in {<<ValuePool[2]>>, <<ValuePool[1], ValuePool[2]>>}
    /\ totalsConfig = NoConfig
    /\ result = NoResult
    /\ prevResult = NoResult
    /\ calls = 0
    /\ input0 = Inputs
    /\ trace = [sortedRowKeys |-> <<>>, colKeys |-> <<>>]
    /\ FormatIdle
    /\ CsvIdle
    /\ ShellIdle

SpecResolve == InitResolve /\ [][NextPivot]_vars

(***************************************************************************)
(* exportToCSV: the CSV content of a pivot result, as the chunks of the     *)
(* Blob: the chunk of the column header lines and, when there are rows,    *)
(* the chunk of the data lines (CHUNK_SIZE exceeds the rows of the model). *)
(* The configuration has no headerRowSettings, so buildCustomHeaders gives *)
(* no line.  The file name, which reads the clock, is left out.            *)
(***************************************************************************)
Quote == "\""
Comma == ","
LineFeed == "\n"

\* str.replace(/"/g, '""')
RECURSIVE doubleQuotes(_)
doubleQuotes(str) ==
    IF str = <<>> THEN <<>>
    ELSE (IF Head(str) = Quote THEN <<Quote, Quote>> ELSE <<Head(str)>>)
         \o doubleQuotes(Tail(str))

\* variant: a value is never quoted
escapeCSV_noQuoting(value) ==
    IF value = Null \/ value = Undefined THEN <<>> ELSE String(value)

escapeCSV(value) ==
    IF value = Null \/ value = Undefined THEN <<>>
    ELSE IF \/ includes(String(value), <<Quote>>)
            \/ includes(String(value), <<Comma>>)
            \/ includes(String(value), <<LineFeed>>)
    THEN <<Quote>> \o doubleQuotes(String(value)) \o <<Quote>>
    ELSE String(value)

\* csvRow.join(',')
RECURSIVE joinFields(_)
joinFields(csvRow) ==
    IF csvRow = <<>> THEN <<>>
    ELSE IF Len(csvRow) = 1 THEN csvRow[1]
    ELSE csvRow[1] \o <<Comma>> \o joinFields(Tail(csvRow))

\* cell?.value ?? ''
valueOrEmpty(cell) ==
    IF cell.value = Null \/ cell.value = Undefined THEN Str(<<>>) ELSE cell.value

\* pivotResult.rowHeaders[0]?.length || 0
numGroupColsOf(pr) ==
    IF Len(pr.rowHeaders) > 0 THEN Len(pr.rowHeaders[1]) ELSE 0

\* the label of a header and an empty cell for each further column it spans
\* (labels and row header values are strings)
headerFields(header) ==
    <<escapeCSV(Str(header.label))>> \o [i \in 1..(header.colSpan - 1) |-> <<>>]

RECURSIVE headerRowFields(_)
headerRowFields(headerRow) ==
    IF headerRow = <<>> THEN <<>>
    ELSE headerFields(Head(headerRow)) \o headerRowFields(Tail(headerRow))

\* 2. Column headers: one line per header row
headerLine(headerRow, numGroupCols) ==
    joinFields([i \in 1..numGroupCols |-> <<>>] \o headerRowFields(headerRow))

\* the row header cells of a data line, a merged cell left empty
rowHeaderFields(rowHeaderCells) ==
    [i \in 1..Len(rowHeaderCells) |->
        IF rowHeaderCells[i].isVisible THEN escapeCSV(Str(rowHeaderCells[i].value))
        ELSE <<>>]

dataFields(dataRow) ==
    [s \in 1..Len(dataRow) |-> escapeCSV(valueOrEmpty(dataRow[s]))]

\* 3. Data rows: one line per row of rowHeaders
dataLine(pr, rowIdx) ==
    joinFields(rowHeaderFields(pr.rowHeaders[rowIdx])
               \o dataFields(IF rowIdx <= Len(pr.dataMatrix)
                             THEN pr.dataMatrix[rowIdx] ELSE <<>>))

\* lines.join('\n') + '\n'
RECURSIVE joinLines(_)
joinLines(lines) ==
    IF lines = <<>> THEN <<LineFeed>>
    ELSE IF Len(lines) = 1 THEN lines[1] \o <<LineFeed>>
    ELSE lines[1] \o <<LineFeed>> \o joinLines(Tail(lines))

headerChunk(pr) ==
    joinLines([l \in 1..Len(pr.headerRows) |->
                  headerLine(pr.headerRows[l], numGroupColsOf(pr))])

dataChunk(pr) == joinLines([i \in 1..Len(pr.rowHeaders) |-> dataLine(pr, i)])

\* the chunks pushed, in order
exportToCSV(pr) ==
    <<headerChunk(pr)>>
    \o (IF Len(pr.rowHeaders) > 0 THEN <<dataChunk(pr)>> ELSE <<>>)

\* the pivot result of the last call is exported
ExportToCSV ==
    /\ calls > 0
    /\ csv = NoCsv
    /\ csv' = exportToCSV(result)
    /\ UNCHANGED pivotVars
    /\ UNCHANGED formatVars
    /\ UNCHANGED shellVars

\* rows whose values hold a comma, a quote, a line feed, the number 0 and null
CsvPool ==
    <<Row6(Str(<<"a">>), Str(<<"x">>), Str(<<"A">>), Str(<<"m">>),
           Str(<<"1", ",", "5">>), Num(0)),
      Row6(Str(<<"a">>), Str(<<"y">>), Str(<<"B">>), Str(<<"m">>),
           Str(<<"x", "\"", "y">>), Null),
      Row6(Str(<<"b">>), Str(<<"x">>), Str(<<"A">>), Str(<<"n">>),
           Num(0), Str(<<"\n", ",">>)),
      RowPool[3]>>

CsvData ==
    {NoData, Dataset(<<CsvPool[1], CsvPool[2]>>),
     Dataset(<<CsvPool[3], CsvPool[1], CsvPool[2]>>), Dataset(<<CsvPool[3]>>),
     Dataset(<<CsvPool[4], CsvPool[2]>>)}

InitCsv ==
    /\ data \in CsvData
    /\ \E both \in BOOLEAN :
          /\ gcData = IF both THEN Dataset(GcRows) ELSE NoData
          /\ rcData = IF both THEN Dataset(RcRows) ELSE NoData
    /\ groupCols \in Prefixes(GroupPool)
    /\ pivotCols \in Prefixes(PivotPool)
    /\ valueCols \in Prefixes(ValuePool)
    /\ totalsConfig \in {tc \in TotalsConfigs :
                            tc.defined => tc.showRowTotals = tc.showColumnTotals}
    /\ result = NoResult
    /\ prevResult = NoResult
    /\ calls = 0
    /\ input0 = Inputs
    /\ trace = [sortedRowKeys |-> <<>>, colKeys |-> <<>>]
    /\ FormatIdle
    /\ CsvIdle
    /\ ShellIdle

NextCsv == CallProcessPivotData \/ ExportToCSV

SpecCsv == InitCsv /\ [][NextCsv]_vars

\* the keys of a row that differ from the column id and equal it once the
\* brackets and the surrounding blanks are stripped
decoratedKeysOf(row, vc) ==
    {i \in 1..Len(row) : row[i][1] # vc.id /\ normalizeId(row[i][1]) = vc.id}

\* C8: a value column whose id equals a row key only after the brackets and
\* surrounding blanks of the key are stripped resolves to the value under
\* that key, in every row that carries the key.
C8_DecoratedKeyResolves ==
    (Returned /\ PairsUnique) =>
        \A n \in 1..Len(data.rows) : \A k \in 1..Len(valueCols) :
            LET row == data.rows[n]
                vc == valueCols[k]
                i == CHOOSE r \in 1..Len(trace.sortedRowKeys) :
                        trace.sortedRowKeys[r] = keyOf(row, groupCols)
            IN (~Has(row, vc.id) /\ ~Has(row, vc.name)
                   /\ decoratedKeysOf(row, vc) # {}) =>
                   \A d \in decoratedKeysOf(row, vc) :
                       result.dataMatrix[i][k].value = row[d][2]

\* the decorated key is resolved when the first row carries it before any
\* other key that contains, or is contained in, the column id
C8_ResolvedCase ==
    /\ Returned
    /\ data.rows = <<ResolvePool[1], ResolvePool[2]>>
    /\ Len(valueCols) = 1
    /\ result.dataMatrix[1][1].value = Num(42)

(***************************************************************************)
(* Degenerate dimensions                                                   *)
(***************************************************************************)
\* C11: for non-empty data with no group column, no pivot column or no value
\* column the call returns a well-formed result: the header rows are one per
\* pivot column plus one when there is a value column; without group columns
\* every row header is empty and there is one output row per row key;
\* without pivot columns the only column key besides TOTAL is the empty
\* string.
C11_DegenerateDimensions ==
    (Returned /\ (Len(groupCols) = 0 \/ Len(pivotCols) = 0 \/ Len(valueCols) = 0)) =>
        /\ DOMAIN result = {"headerRows", "rowHeaders", "dataMatrix"}
        /\ Len(result.headerRows)
              = Len(pivotCols) + (IF Len(valueCols) > 0 THEN 1 ELSE 0)
        /\ Len(result.rowHeaders) = NumRowKeys
        /\ Len(result.dataMatrix) = NumRowKeys
        /\ \A i \in 1..Len(result.dataMatrix) :
              Len(result.dataMatrix[i]) = Len(trace.colKeys) * Len(valueCols)
        /\ Len(groupCols) = 0 =>
              /\ \A i \in 1..Len(result.rowHeaders) : result.rowHeaders[i] = <<>>
              /\ SelectSeq(trace.sortedRowKeys, LAMBDA k : k # TOTAL_KEY) = << <<>> >>
        /\ Len(pivotCols) = 0 =>
              SelectSeq(trace.colKeys, LAMBDA k : k # TOTAL_KEY) = << <<>> >>
        /\ Len(valueCols) = 0 =>
              \A i \in 1..Len(result.dataMatrix) : result.dataMatrix[i] = <<>>

\* three rows, no group, pivot or value column, both totals on
C11_Witness ==
    /\ Returned
    /\ Len(data.rows) = 3
    /\ groupCols = <<>> /\ pivotCols = <<>> /\ valueCols = <<>>
    /\ showRowTotals(totalsConfig) /\ showColumnTotals(totalsConfig)
    /\ result.headerRows = <<>>
    /\ result.rowHeaders = << <<>>, <<>> >>
    /\ result.dataMatrix = << <<>>, <<>> >>

(***************************************************************************)
(* Several rules on one value column                                       *)
(***************************************************************************)
RedBold ==
    [fontColor |-> Color(255, 0, 0), bgColor |-> Undefined,
     bold |-> Bool(TRUE), italic |-> Undefined]

YellowFill ==
    [fontColor |-> Undefined, bgColor |-> Color(255, 255, 0),
     bold |-> Undefined, italic |-> Undefined]

BlueItalic ==
    [fontColor |-> Color(0, 0, 255), bgColor |-> Undefined,
     bold |-> Bool(FALSE), italic |-> Bool(TRUE)]

CellValueRule(operator, value1, style) ==
    [type |-> "cellValue", operator |-> operator, value1 |-> value1,
     value2 |-> Undefined, style |-> style]

RulePool ==
    {CellValueRule("gt", Num(0), RedBold),
     CellValueRule("gt", Num(1), YellowFill),
     CellValueRule("lt", Num(3), BlueItalic),
     [type |-> "topBottom", mode |-> "top", count |-> 1, percent |-> FALSE,
      style |-> HighlightStyle],
     [type |-> "colorScale", scaleType |-> "2-color",
      minColor |-> Color(248, 105, 107), midColor |-> Undefined,
      maxColor |-> Color(0, 128, 0)]}

RuleSeqs == UNION {[1..n -> RulePool] : n \in 2..3}

InitRules ==
    /\ column \in UNION {[1..n -> CellValues] : n \in 1..2}
    /\ columnRules \in RuleSeqs
    /\ styled = NoStyles
    /\ PivotIdle
    /\ CsvIdle
    /\ ShellIdle

SpecRules == InitRules /\ [][NextFormat]_vars

\* the rule matches the cell: its branch of applyConditionalFormatting
\* merges a style into the cell's style
ruleMatches(r, cellValue) ==
    LET numValue == IF IsNum(cellValue) THEN cellValue
                    ELSE parseFloat(String(cellValue))
        pop == populationOf(column)
    IN /\ cellValue # Null
       /\ CASE r.type = "cellValue" -> cellValueMatch(r, cellValue, numValue)
            [] r.type = "topBottom" ->
                  numValue # NaN /\ topBottomMatch(r, numValue, pop)
            [] r.type = "colorScale" ->
                  numValue # NaN /\ pop # <<>> /\ SeqMin(pop) # SeqMax(pop)
            [] OTHER -> FALSE

\* the style properties a rule is configured to set
propertiesSet(r) ==
    IF r.type = "colorScale" THEN {"backgroundColor"}
    ELSE {p \in {"color", "backgroundColor", "fontWeight", "fontStyle"} :
             ruleStyle(r)[p] # Undefined}

\* the style a matching rule contributes to a numeric or string cell
contributionOf(r, cellValue) ==
    IF r.type = "colorScale"
    THEN colorScaleStyle(r, cellValue, populationOf(column))
    ELSE ruleStyle(r)

\* C12: for every cell and every style property that some matching rule
\* sets, the cell's style carries the value given by the last matching rule
\* that sets the property, also when later matching rules do not set it.
C12_LastSetterWins ==
    Formatted =>
        \A i \in 1..Len(column) :
        \A p \in {"color", "backgroundColor", "fontWeight", "fontStyle"} :
            LET setters == {n \in 1..Len(columnRules) :
                               /\ ruleMatches(columnRules[n], column[i])
                               /\ p \in propertiesSet(columnRules[n])}
            IN setters # {} =>
                  LET last == CHOOSE n \in setters : \A m \in setters : m <= n
                  IN /\ p \in DOMAIN styled[i]
                     /\ styled[i][p]
                           = contributionOf(columnRules[last], column[i])[p]

\* the merge holds when the later matching rule is a colour scale, which
\* sets the background colour alone
C12_MergedCase ==
    /\ Formatted
    /\ column = <<Num(1), Num(3)>>
    /\ columnRules[1] = CellValueRule("gt", Num(0), RedBold)
    /\ columnRules[2].type = "colorScale"
    /\ Len(columnRules) = 2
    /\ styled[2] = [color |-> Color(255, 0, 0), backgroundColor |-> Color(0, 128, 0),
                    fontWeight |-> <<"bold">>, fontStyle |-> Undefined]

(***************************************************************************)
(* Dimension rules: group and pivot columns that carry conditional         *)
(* formats, with the grand totals on and a configured total label.         *)
(***************************************************************************)
DimensionRuleLists ==
    {<<>>,
     <<CellValueRule("neq", Str(<<"z", "z">>), RedBold)>>,
     <<CellValueRule("contains", Str(<<"a">>), YellowFill)>>}

DimData ==
    {Dataset(<<RowPool[1]>>),
     Dataset(<<RowPool[1], RowPool[2]>>),
     Dataset(<<RowPool[4], RowPool[1], RowPool[2]>>)}

TotalLabels == {Undefined, Str(<<"T", "o", "t", "a", "l">>)}

DimTotalsConfigs ==
    {[defined |-> TRUE, showRowTotals |-> sr,
      rowTotalsPosition |-> IF first THEN "left" ELSE "right",
      showColumnTotals |-> sc,
      columnTotalsPosition |-> IF first THEN "top" ELSE "bottom",
      showSubtotals |-> FALSE, columnTotalsLabel |-> label]
        : sr \in BOOLEAN, sc \in BOOLEAN, first \in BOOLEAN,
          label \in TotalLabels}

InitDims ==
    /\ data \in DimData
    /\ gcData = NoData
    /\ rcData = NoData
    /\ groupCols \in
          {<<Column(<<"g">>, <<"G">>, r1)>> : r1 \in DimensionRuleLists}
          \cup {<<Column(<<"g">>, <<"G">>, r1), Column(<<"k">>, <<"K">>, r2)>>
                   : r1 \in DimensionRuleLists, r2 \in DimensionRuleLists}
    /\ pivotCols \in
          {<<>>} \cup {<<Column(<<"p">>, <<"P">>, r)>> : r \in DimensionRuleLists}
    /\ valueCols = <<ValuePool[1]>>
    /\ totalsConfig \in DimTotalsConfigs
    /\ result = NoResult
    /\ prevResult = NoResult
    /\ calls = 0
    /\ input0 = Inputs
    /\ trace = [sortedRowKeys |-> <<>>, colKeys |-> <<>>]
    /\ FormatIdle
    /\ CsvIdle
    /\ ShellIdle

SpecDims == InitDims /\ [][NextPivot]_vars

\* the header cell of the grand-total column in the header row of a level
totalColumnHeader(level) ==
    IF totalsConfig.rowTotalsPosition = "left"
    THEN result.headerRows[level][1]
    ELSE result.headerRows[level][Len(result.headerRows[level])]

\* C13: no group-column or pivot-column rule contributes style to the header
\* cells of the grand-total row or of the grand-total column, nor, as row
\* or pivot dimension style, to the data cells of the grand-total row or
\* column (the value columns carry no rule here, so the style of a data cell
\* is its dimension style).
C13_TotalsExcluded ==
    Returned =>
        /\ \A i \in 1..Len(trace.sortedRowKeys) :
              trace.sortedRowKeys[i] = TOTAL_KEY =>
                  /\ \A j \in 1..Len(groupCols) :
                        result.rowHeaders[i][j].style = BoldStyle
                  /\ \A s \in 1..Len(trace.colKeys) :
                        result.dataMatrix[i][s].style
                            = columnKeyStyle(EmptyStyle, trace.colKeys[s], pivotCols)
        /\ showRowTotals(totalsConfig) =>
              \A level \in 1..Len(pivotCols) :
                  totalColumnHeader(level).style
                      = headerCell(totalColumnHeader(level).label,
                                   totalColumnHeader(level).colSpan,
                                   totalsConfig).style
        /\ \A s \in 1..Len(trace.colKeys) :
              trace.colKeys[s] = TOTAL_KEY =>
                  \A i \in 1..Len(trace.sortedRowKeys) :
                      result.dataMatrix[i][s].style
                          = IF trace.sortedRowKeys[i] = TOTAL_KEY THEN EmptyStyle
                            ELSE rowDimensionStyle(EmptyStyle, result.rowHeaders[i],
                                                   groupCols, 1)

\* the exclusion holds for the default label and a single group column
C13_ExcludedCase ==
    /\ Returned
    /\ Len(groupCols) = 1 /\ Len(pivotCols) = 1
    /\ groupCols[1].conditionalFormats # <<>>
    /\ pivotCols[1].conditionalFormats # <<>>
    /\ showRowTotals(totalsConfig) /\ showColumnTotals(totalsConfig)
    /\ totalsConfig.columnTotalsLabel = Undefined
    /\ totalsConfig.columnTotalsPosition = "bottom"
    /\ result.rowHeaders[1][1].style # EmptyStyle
    /\ result.rowHeaders[Len(result.rowHeaders)][1].style = BoldStyle
    /\ \A s \in 1..Len(trace.colKeys) :
          result.dataMatrix[Len(result.dataMatrix)][s].style
              = columnKeyStyle(EmptyStyle, trace.colKeys[s], pivotCols)

(***************************************************************************)
(* Value column rules in the presence of grand totals                      *)
(***************************************************************************)
ValueRuleLists ==
    {<<CellValueRule("gt", Num(1), RedBold)>>,
     <<[type |-> "topBottom", mode |-> "top", count |-> 1, percent |-> FALSE,
        style |-> HighlightStyle]>>,
     <<[type |-> "topBottom", mode |-> "bottom", count |-> 50, percent |-> TRUE,
        style |-> HighlightStyle]>>,
     <<[type |-> "colorScale", scaleType |-> "2-color",
        minColor |-> Color(248, 105, 107), midColor |-> Undefined,
        maxColor |-> Color(0, 128, 0)]>>}

InitValueRules ==
    /\ data \in DimData
    /\ \E both \in BOOLEAN :
          /\ gcData = IF both THEN Dataset(GcRows) ELSE NoData
          /\ rcData = IF both THEN Dataset(RcRows) ELSE NoData
    /\ groupCols = <<GroupPool[1]>>
    /\ pivotCols = <<PivotPool[1]>>
    /\ valueCols \in {<<Column(<<"v">>, <<"N">>, r)>> : r \in ValueRuleLists}
    /\ totalsConfig \in {tc \in DimTotalsConfigs : tc.columnTotalsLabel = Undefined}
    /\ result = NoResult
    /\ prevResult = NoResult
    /\ calls = 0
    /\ input0 = Inputs
    /\ trace = [sortedRowKeys |-> <<>>, colKeys |-> <<>>]
    /\ FormatIdle
    /\ CsvIdle
    /\ ShellIdle

SpecValueRules == InitValueRules /\ [][NextPivot]_vars

\* the numbers among the values of a sequence of cells: a number as it is, a
\* string that parses by what it parses to
RECURSIVE numbersOf(_)
numbersOf(cells) ==
    IF cells = <<>> THEN <<>>
    ELSE LET v == Head(cells).value
         IN (CASE IsNum(v) -> <<v[2]>>
               [] IsStr(v) /\ parseFloat(v[2]) # NaN -> <<parseFloat(v[2])[2]>>
               [] OTHER -> <<>>) \o numbersOf(Tail(cells))

\* the cells of every output row at a slot, the grand-total row included
slotCells(s) == [r \in 1..Len(result.dataMatrix) |-> result.dataMatrix[r][s]]

\* C14: the style of every data cell, those of the grand-total row and of
\* the grand-total column included, is the value column's rules evaluated on
\* the cell with the numeric values of all output rows at its slot, the
\* grand-total row included, as population.
C14_TotalsLikeAnyCell ==
    Returned =>
        \A i \in 1..Len(result.dataMatrix) :
        \A s \in 1..Len(result.dataMatrix[i]) :
            result.dataMatrix[i][s].style
                = applyConditionalFormatting(
                      result.dataMatrix[i][s].value,
                      valueCols[1].conditionalFormats,
                      numbersOf(slotCells(s)))

\* with 'top 1' the column totals 10 and 11 are the values marked in their
\* slots, and the row total 30 the one marked in the total column
C14_Witness ==
    /\ Returned
    /\ data.rows = <<RowPool[1], RowPool[2]>>
    /\ gcData.defined
    /\ valueCols[1].conditionalFormats[1].type = "topBottom"
    /\ valueCols[1].conditionalFormats[1].mode = "top"
    /\ trace.sortedRowKeys = << <<"a">>, TOTAL_KEY >>
    /\ trace.colKeys = << <<"A">>, <<"B">>, TOTAL_KEY >>
    /\ [r \in 1..2 |-> [s \in 1..3 |-> result.dataMatrix[r][s].value]]
          = << <<Num(1), Num(2), Num(30)>>, <<Num(10), Num(11), Num(21)>> >>
    /\ \A s \in 1..2 : /\ result.dataMatrix[1][s].style = EmptyStyle
                       /\ result.dataMatrix[2][s].style # EmptyStyle
    /\ result.dataMatrix[1][3].style # EmptyStyle
    /\ result.dataMatrix[2][3].style = EmptyStyle

(***************************************************************************)
(* The keys of the output come from the main dataset                       *)
(***************************************************************************)
\* the keys of a key sequence other than TOTAL
dataKeys(keys) == {keys[i] : i \in 1..Len(keys)} \ {TOTAL_KEY}

\* the group keys of the rows of rcData, the pivot keys of the rows of gcData
totalsRowKeys == {keyOf(rcData.rows[n], groupCols) : n \in 1..Len(rcData.rows)}
totalsColKeys == {colKeyOfRow(gcData.rows[n]) : n \in 1..Len(gcData.rows)}

mainRowKeys == {keyOf(data.rows[n], groupCols) : n \in 1..Len(data.rows)}
mainColKeys == {colKeyOfRow(data.rows[n]) : n \in 1..Len(data.rows)}

\* C15: the row keys and the column keys other than TOTAL are exactly the keys
\* of the rows of the main dataset, and the output has one row header and one
\* matrix row per row key, and one slot and one unit of header span per column
\* key and value column: a row of rcData or gcData whose key the main dataset
\* does not have adds no output row, column key, header cell or matrix slot.
C15_KeysFromMainData ==
    Returned =>
        /\ dataKeys(trace.sortedRowKeys) = mainRowKeys
        /\ dataKeys(trace.colKeys) = mainColKeys
        /\ Len(result.rowHeaders) = Len(trace.sortedRowKeys)
        /\ Len(result.dataMatrix) = Len(trace.sortedRowKeys)
        /\ \A i \in 1..Len(result.dataMatrix) :
              Len(result.dataMatrix[i]) = Len(trace.colKeys) * Len(valueCols)
        /\ \A l \in 1..Len(result.headerRows) :
              SumSeq([c \in 1..Len(result.headerRows[l]) |->
                         result.headerRows[l][c].colSpan])
                  = Len(trace.colKeys) * Len(valueCols)
        /\ Len(trace.sortedRowKeys)
              = Cardinality(mainRowKeys)
                + (IF showColumnTotals(totalsConfig) THEN 1 ELSE 0)
        /\ Len(trace.colKeys)
              = Cardinality(mainColKeys)
                + (IF showRowTotals(totalsConfig) THEN 1 ELSE 0)

\* rcData has the group key 'b' and gcData the pivot key 'B', the main
\* dataset has neither
C15_Witness ==
    /\ Returned
    /\ rcData.defined /\ gcData.defined
    /\ showRowTotals(totalsConfig) /\ showColumnTotals(totalsConfig)
    /\ Len(groupCols) = 1 /\ Len(pivotCols) = 1 /\ Len(valueCols) = 2
    /\ totalsRowKeys \ mainRowKeys # {}
    /\ totalsColKeys \ mainColKeys # {}
    /\ Len(result.rowHeaders) = 2
    /\ Len(result.dataMatrix[1]) = 4
    /\ Len(result.headerRows[2]) = 4

(***************************************************************************)
(* Totals datasets                                                         *)
(***************************************************************************)
\* a row of a totals dataset: its key field and the two value fields
TotalsRow(field, key, v, sa) ==
    << <<field, key>>, <<(<<"v">>), v>>, <<(<<"S", "a">>), sa>> >>

\* a column total whose pivot value the main dataset does not have
GcOther == TotalsRow(<<"p">>, Str(<<"x">>), Str(<<"(", "5", ")">>), Str(<<"n">>))

\* a row total of the empty group value
RcEmpty == TotalsRow(<<"g">>, Str(<<>>), Str(<<"-", "4", " ", "x">>), Num(2))

GcChoices ==
    {NoData, Dataset(GcRows), Dataset(<<GcRows[2], GcOther>>),
     Dataset(<<GcOther, GcRows[1]>>)}

RcChoices ==
    {NoData, Dataset(RcRows), Dataset(<<RcRows[2]>>),
     Dataset(<<RcEmpty, RcRows[1]>>)}

InitTotals ==
    /\ data \in DimData \cup {Dataset(<<RowPool[3], RowPool[1]>>)}
    /\ gcData \in GcChoices
    /\ rcData \in RcChoices
    /\ groupCols = <<GroupPool[1]>>
    /\ pivotCols \in {<<>>, <<PivotPool[1]>>}
    /\ valueCols \in {<<ValuePool[1]>>, ValuePool}
    /\ totalsConfig \in TotalsConfigs
    /\ result = NoResult
    /\ prevResult = NoResult
    /\ calls = 0
    /\ input0 = Inputs
    /\ trace = [sortedRowKeys |-> <<>>, colKeys |-> <<>>]
    /\ FormatIdle
    /\ CsvIdle
    /\ ShellIdle

SpecTotals == InitTotals /\ [][NextPivot]_vars

\* the position of a key in a key sequence
indexOf(keys, key) == CHOOSE i \in 1..Len(keys) : keys[i] = key

\* the value of the returned cell of row key i, column key j, value column k
cellAt(i, j, k) == result.dataMatrix[i][(j - 1) * Len(valueCols) + k].value

\* strip every character outside [0-9.-], parse, 0 on failure
numericCoercion(val) ==
    CASE IsNum(val) -> val
      [] IsStr(val) ->
            LET clean == SelectSeq(val[2], LAMBDA c : c \in DigitSet \cup {"-"})
            IN IF parseFloat(clean) = NaN THEN Num(0) ELSE parseFloat(clean)
      [] OTHER -> Num(0)

\* C16: with both totals on and both totals datasets supplied, the
\* (TOTAL, TOTAL) cell of each value column is the sum over all rows of
\* gcData of the numeric coercion of that column's value.
C16_GlobalTotalIsGcSum ==
    (/\ Returned
     /\ showRowTotals(totalsConfig) /\ showColumnTotals(totalsConfig)
     /\ gcData.defined /\ rcData.defined) =>
        \A k \in 1..Len(valueCols) :
            cellAt(indexOf(trace.sortedRowKeys, TOTAL_KEY),
                   indexOf(trace.colKeys, TOTAL_KEY), k)
                = Num(SumSeq([n \in 1..Len(gcData.rows) |->
                                 numericCoercion(Get(gcData.rows[n],
                                                     valueCols[k].id))[2]]))

\* gcData sums to 11 + 5 and 21 + 0, rcData to 30 + 31 and 40 + 0, and the
\* main rows to 1 + 2 and 5
C16_Witness ==
    /\ Returned
    /\ showRowTotals(totalsConfig) /\ showColumnTotals(totalsConfig)
    /\ gcData = Dataset(<<GcRows[2], GcOther>>)
    /\ rcData = Dataset(RcRows)
    /\ data.rows = <<RowPool[1], RowPool[2]>>
    /\ Len(valueCols) = 2 /\ Len(pivotCols) = 1
    /\ cellAt(indexOf(trace.sortedRowKeys, TOTAL_KEY),
              indexOf(trace.colKeys, TOTAL_KEY), 1) = Num(16)
    /\ cellAt(indexOf(trace.sortedRowKeys, TOTAL_KEY),
              indexOf(trace.colKeys, TOTAL_KEY), 2) = Num(21)

\* the rows of a totals dataset that have a key
rowsWithKey(d, cols, key) == SelectSeq(d.rows, LAMBDA row : keyOf(row, cols) = key)

\* the total looked up for a key: the coerced value of the totals row of the
\* key (the last one, should several rows have the key), null when the
\* dataset has no such row
lookedUpTotal(d, cols, key, vc) ==
    IF rowsWithKey(d, cols, key) = <<>> THEN Null
    ELSE numericCoercion(Get(rowsWithKey(d, cols, key)[Len(rowsWithKey(d, cols, key))],
                             vc.id))

\* C17: with showRowTotals on, the (RowKey, TOTAL) cell of a value column is
\* the numeric coercion of the column's value in the rcData row of that
\* RowKey, and null when rcData has no such row or is not supplied; with
\* showColumnTotals on, the same holds of (TOTAL, ColumnKey) and gcData.
C17_TotalsAreLookups ==
    Returned =>
        /\ showRowTotals(totalsConfig) =>
              \A i \in 1..Len(trace.sortedRowKeys) : \A k \in 1..Len(valueCols) :
                  trace.sortedRowKeys[i] # TOTAL_KEY =>
                      cellAt(i, indexOf(trace.colKeys, TOTAL_KEY), k)
                          = lookedUpTotal(rcData, groupCols,
                                          trace.sortedRowKeys[i], valueCols[k])
        /\ showColumnTotals(totalsConfig) =>
              \A j \in 1..Len(trace.colKeys) : \A k \in 1..Len(valueCols) :
                  trace.colKeys[j] # TOTAL_KEY =>
                      cellAt(indexOf(trace.sortedRowKeys, TOTAL_KEY), j, k)
                          = lookedUpTotal(gcData, pivotCols, trace.colKeys[j],
                                          valueCols[k])

\* row key 'a' has no row in rcData and row key 'b' has '31'; column key 'A'
\* has no row in gcData and column key 'B' has 11
C17_Witness ==
    /\ Returned
    /\ showRowTotals(totalsConfig) /\ showColumnTotals(totalsConfig)
    /\ rcData = Dataset(<<RcRows[2]>>)
    /\ gcData = Dataset(<<GcRows[2], GcOther>>)
    /\ trace.sortedRowKeys = << <<"a">>, <<"b">>, TOTAL_KEY >>
    /\ trace.colKeys = << <<"A">>, <<"B">>, TOTAL_KEY >>
    /\ Len(valueCols) = 1
    /\ cellAt(1, 3, 1) = Null
    /\ cellAt(2, 3, 1) = Num(31)
    /\ cellAt(3, 1, 1) = Null
    /\ cellAt(3, 2, 1) = Num(11)

\* no totals dataset is supplied: every cell of the total row and of the total
\* column is null beside main cells that hold values
C17_NoDatasetCase ==
    /\ Returned
    /\ showRowTotals(totalsConfig) /\ showColumnTotals(totalsConfig)
    /\ ~rcData.defined /\ ~gcData.defined
    /\ trace.sortedRowKeys = << <<"a">>, TOTAL_KEY >>
    /\ trace.colKeys = << <<"A">>, <<"B">>, TOTAL_KEY >>
    /\ Len(valueCols) = 1
    /\ [i \in 1..2 |-> [s \in 1..3 |-> result.dataMatrix[i][s].value]]
          = << <<Num(1), Num(2), Null>>, <<Null, Null, Null>> >>

(***************************************************************************)
(* A value column that no field of the dataset resolves                    *)
(***************************************************************************)
\* value columns: 'x' and '[u]' name no field of the rows; 'u' is resolved by
\* its display name 'v'
Unmatched == Column(<<"x">>, <<"O">>, <<>>)
UnmatchedBracketed == Column(<<"[", "u", "]">>, <<"O">>, <<>>)
ByName == Column(<<"u">>, <<"v">>, <<>>)

UnresolvedValueCols ==
    {<<Unmatched>>, <<ValuePool[1], Unmatched>>, <<Unmatched, ValuePool[1]>>,
     <<ValuePool[1], Unmatched, ValuePool[2]>>, <<ByName, Unmatched>>,
     <<ByName, UnmatchedBracketed>>, <<UnmatchedBracketed, ByName>>,
     <<UnmatchedBracketed, ValuePool[2]>>}

InitUnresolved ==
    /\ data \in DimData \cup {Dataset(<<RowPool[3], RowPool[1]>>)}
    /\ \E both \in BOOLEAN :
          /\ gcData = IF both THEN Dataset(GcRows) ELSE NoData
          /\ rcData = IF both THEN Dataset(RcRows) ELSE NoData
    /\ groupCols = <<GroupPool[1]>>
    /\ pivotCols \in {<<>>, <<PivotPool[1]>>}
    /\ valueCols \in UnresolvedValueCols
    /\ totalsConfig \in TotalsConfigs
    /\ result = NoResult
    /\ prevResult = NoResult
    /\ calls = 0
    /\ input0 = Inputs
    /\ trace = [sortedRowKeys |-> <<>>, colKeys |-> <<>>]
    /\ FormatIdle
    /\ CsvIdle
    /\ ShellIdle

SpecUnresolved == InitUnresolved /\ [][NextPivot]_vars

\* a field name and a value column match by one of the strategies of the
\* field name mapping or of findFieldValue
keyMatches(key, vc) ==
    \/ key \in {vc.id, vc.name, normalizeId(vc.id)}
    \/ toLowerCase(key) \in {toLowerCase(vc.id), toLowerCase(vc.name),
                             toLowerCase(normalizeId(vc.id))}
    \/ includes(toLowerCase(key), toLowerCase(vc.id))
    \/ includes(toLowerCase(vc.id), toLowerCase(key))
    \/ includes(toLowerCase(key), toLowerCase(normalizeId(vc.id)))
    \/ includes(toLowerCase(normalizeId(vc.id)), toLowerCase(key))

\* the value column matches no key of the dataset
matchesNoKey(vc) ==
    \A n \in 1..Len(data.rows) : \A i \in 1..Len(data.rows[n]) :
        ~keyMatches(data.rows[n][i][1], vc)

\* the value columns without the k-th
withoutColumn(k) ==
    SubSeq(valueCols, 1, k - 1) \o SubSeq(valueCols, k + 1, Len(valueCols))

\* the values of the cells of the k-th value column, per row and column key
columnCells(matrix, colKeys, k, numCols) ==
    [i \in 1..Len(matrix) |->
        [j \in 1..Len(colKeys) |-> matrix[i][(j - 1) * numCols + k].value]]

\* the result of the call on the same inputs less the k-th value column
resultWithout(k) ==
    processPivotData(data, groupCols, pivotCols, withoutColumn(k),
                     totalsConfig, gcData, rcData)

\* C18: when a value column matches no key of the dataset, the call returns,
\* every non-total data cell of that column is null, and the cells of every
\* other value column are the ones of the call without that column.
C18_UnresolvedIsBlank ==
    Returned =>
        \A k \in 1..Len(valueCols) :
            matchesNoKey(valueCols[k]) =>
                /\ DOMAIN result = {"headerRows", "rowHeaders", "dataMatrix"}
                /\ \A i \in 1..Len(trace.sortedRowKeys) :
                   \A j \in 1..Len(trace.colKeys) :
                       (trace.sortedRowKeys[i] # TOTAL_KEY
                        /\ trace.colKeys[j] # TOTAL_KEY) =>
                           cellAt(i, j, k) = Null
                /\ \A m \in 1..(Len(valueCols) - 1) :
                       columnCells(result.dataMatrix, trace.colKeys,
                                   IF m < k THEN m ELSE m + 1, Len(valueCols))
                           = columnCells(resultWithout(k).dataMatrix,
                                         trace.colKeys, m, Len(valueCols) - 1)

\* the column 'x' beside the resolved column 'v': its cells are null and the
\* cells of 'v' are there
C18_BlankCase ==
    /\ Returned
    /\ valueCols = <<ValuePool[1], Unmatched>>
    /\ data.rows = <<RowPool[1], RowPool[2]>>
    /\ Len(pivotCols) = 1
    /\ ~showRowTotals(totalsConfig) /\ ~showColumnTotals(totalsConfig)
    /\ [s \in 1..4 |-> result.dataMatrix[1][s].value]
          = <<Num(1), Null, Num(2), Null>>

\* the column '[u]' beside the column 'u': its cells hold the values of 'u'
C18_BorrowedCase ==
    /\ Returned
    /\ valueCols = <<ByName, UnmatchedBracketed>>
    /\ matchesNoKey(UnmatchedBracketed)
    /\ data.rows = <<RowPool[1], RowPool[2]>>
    /\ Len(pivotCols) = 1
    /\ ~showRowTotals(totalsConfig) /\ ~showColumnTotals(totalsConfig)
    /\ [s \in 1..4 |-> result.dataMatrix[1][s].value]
          = <<Num(1), Num(1), Num(2), Num(2)>>

(***************************************************************************)
(* Field resolution over rows with different key sets                      *)
(***************************************************************************)
\* the value column '[Sa]' named 'T': its fields by strategy are '[Sa]', 'T',
\* 'Sa' and any key equal to one of them up to case
Bracketed == Column(<<"[", "S", "a", "]">>, <<"T">>, <<>>)

TierRow(g, fields) == << <<(<<"g">>), Str(g)>> >> \o fields

TierPool ==
    <<TierRow(<<"a">>, << <<(<<"T">>), Num(2)>> >>),
      TierRow(<<"b">>, << <<(<<"s", "a">>), Num(4)>>, <<(<<"S", "a">>), Num(3)>>,
                          <<(<<"T">>), Num(2)>>,
                          <<(<<"[", "S", "a", "]">>), Num(1)>> >>),
      TierRow(<<"c">>, << <<(<<"s", "a">>), Num(4)>>, <<(<<"S", "a">>), Num(3)>> >>),
      TierRow(<<"d">>, << <<(<<"t">>), Num(5)>> >>),
      TierRow(<<"e">>, << <<(<<"S", "a">>), Num(3)>>, <<(<<"T">>), Num(2)>> >>)>>

TierSeqs ==
    UNION {{[i \in 1..n |-> TierPool[f[i]]] :
               f \in {h \in [1..n -> 1..Len(TierPool)] :
                         \A i, j \in 1..n : h[i] = h[j] => i = j}}
           : n \in 1..MaxRows}

InitTiers ==
    /\ data \in {Dataset(rs) : rs \in TierSeqs}
    /\ gcData = NoData
    /\ rcData = NoData
    /\ groupCols = <<GroupPool[1]>>
    /\ pivotCols = <<>>
    /\ valueCols = <<Bracketed>>
    /\ totalsConfig = NoConfig
    /\ result = NoResult
    /\ prevResult = NoResult
    /\ calls = 0
    /\ input0 = Inputs
    /\ trace = [sortedRowKeys |-> <<>>, colKeys |-> <<>>]
    /\ FormatIdle
    /\ CsvIdle
    /\ ShellIdle

SpecTiers == InitTiers /\ [][NextPivot]_vars

\* the first key of the row equal up to case to the id, the stripped id or
\* the name of the column
caseInsensitiveKeys(row, vc) ==
    {i \in 1..Len(row) :
        toLowerCase(row[i][1]) \in {toLowerCase(vc.id), toLowerCase(vc.name),
                                    toLowerCase(normalizeId(vc.id))}}

\* the value the four strategies give in a row, the first that matches winning
tierValue(row, vc) ==
    CASE Has(row, vc.id) -> Get(row, vc.id)
      [] Has(row, vc.name) -> Get(row, vc.name)
      [] Has(row, normalizeId(vc.id)) -> Get(row, normalizeId(vc.id))
      [] caseInsensitiveKeys(row, vc) # {} ->
            row[CHOOSE i \in caseInsensitiveKeys(row, vc) :
                   \A j \in caseInsensitiveKeys(row, vc) : i <= j][2]
      [] OTHER -> Null

\* C19: in every row, whatever the keys of the first row, the cell of a value
\* column holds the value of the first strategy that matches in that row: the
\* id key, then the display name key, then the stripped id, then a key equal
\* up to case.
C19_TierOrderPerRow ==
    Returned =>
        \A n \in 1..Len(data.rows) :
            cellAt(indexOf(trace.sortedRowKeys, keyOf(data.rows[n], groupCols)),
                   1, 1)
                = tierValue(data.rows[n], valueCols[1])

\* the first row has the name key only, the second row all four keys: the
\* second row's cell holds the value under the name key, 2, where the id key
\* holds 1
C19_CachedNameCase ==
    /\ Returned
    /\ data.rows = <<TierPool[1], TierPool[2]>>
    /\ result.dataMatrix[1][1].value = Num(2)
    /\ result.dataMatrix[2][1].value = Num(2)

\* the first row has the id key: every row is resolved in the order of the
\* strategies
C19_OrderedCase ==
    /\ Returned
    /\ data.rows = <<TierPool[2], TierPool[3], TierPool[4]>>
    /\ [i \in 1..3 |-> result.dataMatrix[i][1].value] = <<Num(1), Num(3), Num(5)>>

(***************************************************************************)
(* The CSV content                                                         *)
(***************************************************************************)

\* the lines of a chunk: a line feed outside quotes ends a line
RECURSIVE parseLines(_, _, _, _)
parseLines(rest, cur, inQuotes, acc) ==
    IF rest = <<>> THEN (IF cur = <<>> THEN acc ELSE Append(acc, cur))
    ELSE IF Head(rest) = LineFeed /\ ~inQuotes
    THEN parseLines(Tail(rest), <<>>, FALSE, Append(acc, cur))
    ELSE parseLines(Tail(rest), Append(cur, Head(rest)),
                    IF Head(rest) = Quote THEN ~inQuotes ELSE inQuotes, acc)

linesOf(chunk) == parseLines(chunk, <<>>, FALSE, <<>>)

\* the fields of a CSV line: a comma outside quotes ends a field, a quoted
\* field has its quotes removed and its doubled quotes halved
RECURSIVE parseFields(_, _, _, _)
parseFields(rest, cur, inQuotes, acc) ==
    IF rest = <<>> THEN Append(acc, cur)
    ELSE IF inQuotes
    THEN IF Head(rest) = Quote
         THEN IF Len(rest) > 1 /\ rest[2] = Quote
              THEN parseFields(Tail(Tail(rest)), Append(cur, Quote), TRUE, acc)
              ELSE parseFields(Tail(rest), cur, FALSE, acc)
         ELSE parseFields(Tail(rest), Append(cur, Head(rest)), TRUE, acc)
    ELSE IF Head(rest) = Comma
         THEN parseFields(Tail(rest), <<>>, FALSE, Append(acc, cur))
    ELSE IF Head(rest) = Quote
         THEN parseFields(Tail(rest), cur, TRUE, acc)
    ELSE parseFields(Tail(rest), Append(cur, Head(rest)), FALSE, acc)

fieldsOf(line) == parseFields(line, <<>>, FALSE, <<>>)

\* the result of a non-empty dataset has been exported
Exported == csv # NoCsv /\ ~emptyGuard(data)

\* the header lines and the data lines of the exported content
headerLinesOf(chunks) == linesOf(chunks[1])
dataLinesOf(chunks) == linesOf(chunks[2])

\* the number of row header levels and the width of the data matrix
headerLevels == Len(result.rowHeaders[1])
matrixWidth == Len(result.dataMatrix[1])

\* the text of a data cell: empty for null and undefined, String(value)
\* otherwise
cellText(value) == IF value \in {Null, Undefined} THEN <<>> ELSE String(value)

\* the fields a header row stands for: each label followed by colSpan - 1
\* empty fields
RECURSIVE spannedLabels(_)
spannedLabels(headerRow) ==
    IF headerRow = <<>> THEN <<>>
    ELSE <<Head(headerRow).label>>
         \o [i \in 1..(Head(headerRow).colSpan - 1) |-> <<>>]
         \o spannedLabels(Tail(headerRow))

\* a line has n fields; the line of no field at all is the empty line
hasFields(line, n) == IF n = 0 THEN line = <<>> ELSE Len(fieldsOf(line)) = n

\* C20: a null or undefined data cell is an empty field and the number 0 is
\* the field '0'; the content has one line per header row and one per output
\* row, each of (#row header levels) + (width of the data matrix) fields, a
\* header of colSpan n taking n of them.
C20_CsvFields ==
    Exported =>
        /\ Len(csv) = 2
        /\ Len(dataLinesOf(csv)) = Len(result.rowHeaders)
        /\ \A i \in 1..Len(dataLinesOf(csv)) :
              /\ hasFields(dataLinesOf(csv)[i], headerLevels + matrixWidth)
              /\ \A s \in 1..matrixWidth :
                    fieldsOf(dataLinesOf(csv)[i])[headerLevels + s]
                        = cellText(result.dataMatrix[i][s].value)
        /\ Len(result.headerRows) > 0 =>
              /\ Len(headerLinesOf(csv)) = Len(result.headerRows)
              /\ \A l \in 1..Len(headerLinesOf(csv)) :
                    /\ hasFields(headerLinesOf(csv)[l], headerLevels + matrixWidth)
                    /\ matrixWidth > 0 =>
                          SubSeq(fieldsOf(headerLinesOf(csv)[l]), headerLevels + 1,
                                 headerLevels + matrixWidth)
                              = spannedLabels(result.headerRows[l])
        /\ Len(result.headerRows) = 0 => csv[1] = <<LineFeed>>

\* a data line with a quoted comma, the number 0 and a null row total, under
\* a header line whose labels span two fields each
C20_Witness ==
    /\ Exported
    /\ data.rows = <<CsvPool[1], CsvPool[2]>>
    /\ Len(groupCols) = 1 /\ Len(pivotCols) = 1 /\ Len(valueCols) = 2
    /\ showRowTotals(totalsConfig) /\ totalsConfig.rowTotalsPosition = "right"
    /\ showColumnTotals(totalsConfig)
    /\ ~rcData.defined
    /\ fieldsOf(dataLinesOf(csv)[1])
          = << <<"a">>, <<"1", ",", "5">>, <<"0">>, <<"x", "\"", "y">>, <<>>,
               <<>>, <<>> >>
    /\ fieldsOf(headerLinesOf(csv)[1])
          = << <<>>, <<"A">>, <<>>, <<"B">>, <<>>,
               <<"G", "r", "a", "n", "d", " ", "T", "o", "t", "a", "l">>, <<>> >>

(***************************************************************************)
(* C23: vertical merge of the row headers                                  *)
(***************************************************************************)
\* row i of the result is a row of the data, not the grand-total row
isDataRow(i) == trace.sortedRowKeys[i] # TOTAL_KEY

\* rows i - 1 and i carry the same labels at the levels 1..j
sameLabelsUpTo(i, j) ==
    \A p \in 1..j :
        result.rowHeaders[i][p].value = result.rowHeaders[i - 1][p].value

\* the rows after row i that are hidden at level j without interruption
RECURSIVE hiddenBelow(_, _)
hiddenBelow(i, j) ==
    IF i + 1 > Len(result.rowHeaders) THEN 0
    ELSE IF isDataRow(i + 1) /\ ~result.rowHeaders[i + 1][j].isVisible
         THEN 1 + hiddenBelow(i + 1, j)
         ELSE 0

\* C23: between two consecutive data rows a row-header cell is hidden exactly
\* when its label and the labels of all shallower levels equal those of the
\* row above; the first data row is visible at every level; a visible cell
\* spans the run it heads; the grand-total row never merges with a data row.
C23_VerticalMerge ==
    Returned =>
        \A i \in 1..Len(result.rowHeaders) :
            \A j \in 1..Len(groupCols) :
                LET cell == result.rowHeaders[i][j]
                IN IF isDataRow(i)
                   THEN /\ cell.isVisible =
                              ~(i > 1 /\ isDataRow(i - 1) /\ sameLabelsUpTo(i, j))
                        /\ cell.isVisible =>
                              cell.rowSpan = 1 + hiddenBelow(i, j)
                   ELSE /\ cell.rowSpan = 1
                        /\ cell.isVisible = (j = 1)

\* two data rows share the first label and differ below it, a third row
\* repeats a deeper label under another parent, and a grand-total row follows
C23_Witness ==
    /\ Returned
    /\ Len(groupCols) = 2
    /\ Len(result.rowHeaders) = 4
    /\ ~isDataRow(4)
    /\ result.rowHeaders[1][1].rowSpan = 2
    /\ ~result.rowHeaders[2][1].isVisible
    /\ result.rowHeaders[2][2].isVisible
    /\ result.rowHeaders[3][2].value = result.rowHeaders[1][2].value
    /\ result.rowHeaders[3][2].isVisible

(***************************************************************************)
(* C24: order of the row keys and of the column keys                       *)
(***************************************************************************)
\* rows whose group and pivot values are numbers of one and two digits, a
\* digit string and null
KeyPool ==
    <<Row6(Num(10), Str(<<"x">>), Num(2), Str(<<"m">>), Num(1), Num(5)),
      Row6(Num(2), Str(<<"x">>), Num(10), Str(<<"m">>), Num(2), Null),
      Row6(Num(2), Str(<<"y">>), Str(<<"1">>), Str(<<"n">>), Num(3), Num(7)),
      Row6(Null, Str(<<"x">>), Num(10), Str(<<"n">>), Num(4), Num(0))>>

KeySeqs ==
    UNION {{[i \in 1..n |-> KeyPool[f[i]]] :
               f \in {h \in [1..n -> 1..Len(KeyPool)] :
                         \A i, j \in 1..n : h[i] = h[j] => i = j}}
           : n \in 0..MaxRows}

InitKeys ==
    /\ data \in {Dataset(rs) : rs \in KeySeqs}
    /\ gcData = NoData
    /\ rcData = NoData
    /\ groupCols \in Prefixes(GroupPool)
    /\ pivotCols \in Prefixes(PivotPool)
    /\ valueCols = SubSeq(ValuePool, 1, 1)
    /\ totalsConfig \in TotalsConfigs
    /\ result = NoResult
    /\ prevResult = NoResult
    /\ calls = 0
    /\ input0 = Inputs
    /\ trace = [sortedRowKeys |-> <<>>, colKeys |-> <<>>]
    /\ FormatIdle
    /\ CsvIdle
    /\ ShellIdle

SpecKeys == InitKeys /\ [][NextPivot]_vars

\* the keys of a list other than the total key, in the order of the list
withoutTotalKey(keys) == SelectSeq(keys, LAMBDA k : k # TOTAL_KEY)

\* a list of strings ascends strictly in the order of the code units
strictlyAscending(keys) ==
    \A i, j \in 1..Len(keys) : i < j => StrLess(keys[i], keys[j])

\* the joined keys of the rows of the dataset over some columns
joinedKeys(cols) == {keyOf(data.rows[i], cols) : i \in 1..Len(data.rows)}

\* C24: the row keys and the column keys other than the total key ascend
\* strictly in the string order of the joined key and are exactly the
\* distinct keys of the rows, so that they do not depend on the order of the
\* rows; without a pivot column the only column key is the empty key.
C24_KeyOrder ==
    Returned =>
        LET rk == withoutTotalKey(trace.sortedRowKeys)
            ck == withoutTotalKey(trace.colKeys)
        IN /\ strictlyAscending(rk)
           /\ {rk[i] : i \in 1..Len(rk)} = joinedKeys(groupCols)
           /\ IF Len(pivotCols) > 0
              THEN /\ strictlyAscending(ck)
                   /\ {ck[i] : i \in 1..Len(ck)} = joinedKeys(pivotCols)
              ELSE ck = << <<>> >>

\* the rows arrive with 2 before 10 and twice with the group value 2; the
\* key "10" comes out before the key "2", which appears once
C24_Witness ==
    /\ Returned
    /\ Len(groupCols) = 1
    /\ Len(pivotCols) = 1
    /\ Len(data.rows) = 3
    /\ Get(data.rows[1], <<"g">>) = Num(2)
    /\ Get(data.rows[2], <<"g">>) = Num(2)
    /\ Get(data.rows[3], <<"g">>) = Num(10)
    /\ withoutTotalKey(trace.sortedRowKeys) = << <<"1", "0">>, <<"2">> >>
    /\ withoutTotalKey(trace.colKeys) = << <<"1">>, <<"1", "0">>, <<"2">> >>

(***************************************************************************)
(* C25: the scale type of a colour scale                                   *)
(***************************************************************************)
\* the numbers of the slot, in the order of the rows
numericValuesOf(col) ==
    [i \in 1..Len(SelectSeq(col, IsNum)) |-> SelectSeq(col, IsNum)[i][2]]

\* the colour at factor num / den on the line from one colour to another
between(fromColor, toColor, num, den) ==
    mix(hexToRgb(fromColor), hexToRgb(toColor), num, den)

\* the background that a scale of the given type gives to a value strictly
\* inside min..max: two colours interpolate from minColor to maxColor, three
\* colours go through midColor at the mean of min and max
scaleTypeColor(r, value, min, max) ==
    IF r.scaleType = "2-color" \/ r.midColor = Undefined
    THEN between(r.minColor, r.maxColor, value - min, max - min)
    ELSE IF 2 * value < min + max
         THEN between(r.minColor, r.midColor, 2 * (value - min), max - min)
         ELSE between(r.midColor, r.maxColor, 2 * value - min - max, max - min)

\* C25: a colour scale of type '2-color' interpolates between minColor and
\* maxColor whatever midColor the rule carries, the midpoint colour is used
\* only by a scale of type '3-color', and a slot whose minimum equals its
\* maximum gets no style from the rule.
C25_ScaleTypeDecides ==
    LET r == columnRules[1]
        pop == numericValuesOf(column)
    IN (Formatted /\ r.type = "colorScale") =>
           \A i \in NumericCells :
               IF SeqMin(pop) = SeqMax(pop)
               THEN styled[i] = EmptyStyle
               ELSE (column[i][2] > SeqMin(pop) /\ column[i][2] < SeqMax(pop)) =>
                        styled[i] = [backgroundColor |->
                                        scaleTypeColor(r, column[i][2],
                                                       SeqMin(pop), SeqMax(pop))]

\* a scale of type '2-color' that carries a midColor paints the value at the
\* mean of the slot with that midColor
C25_CarriedMidCase ==
    /\ Formatted
    /\ columnRules[1].type = "colorScale"
    /\ columnRules[1].scaleType = "2-color"
    /\ columnRules[1].midColor = Color(255, 235, 132)
    /\ columnRules[1].minColor = Color(248, 105, 107)
    /\ column = <<Num(0), Num(1), Num(2)>>
    /\ styled[2].backgroundColor = Color(255, 235, 132)

\* a scale of type '2-color' without midColor paints it half way between
\* minColor and maxColor
C25_TwoColorCase ==
    /\ Formatted
    /\ columnRules[1].type = "colorScale"
    /\ columnRules[1].scaleType = "2-color"
    /\ columnRules[1].midColor = Undefined
    /\ columnRules[1].minColor = Color(248, 105, 107)
    /\ column = <<Num(0), Num(1), Num(2)>>
    /\ styled[2].backgroundColor = Color(124, 117, 54)

\* a slot of equal numbers gets no style from a colour scale
C25_FlatCase ==
    /\ Formatted
    /\ columnRules[1].type = "colorScale"
    /\ column = <<Num(2), Num(2)>>
    /\ styled = <<EmptyStyle, EmptyStyle>>

(***************************************************************************)
(* C26: a top/bottom rule that asks for more values than the slot holds    *)
(***************************************************************************)
\* C26: when the number of values a top/bottom rule asks for, by count or
\* by percentage, exceeds the number of numeric values of the slot, every
\* numeric value of the slot qualifies.
C26_ThresholdClamped ==
    LET r == columnRules[1]
    IN (Formatted /\ r.type = "topBottom"
           /\ Requested(r, Cardinality(NumericCells)) > Cardinality(NumericCells)) =>
           Qualifying = NumericCells

\* top 4 by count over three numbers marks the three of them
C26_CountCase ==
    /\ Formatted
    /\ columnRules[1].type = "topBottom" /\ columnRules[1].mode = "top"
    /\ ~columnRules[1].percent /\ columnRules[1].count = 4
    /\ column = <<Num(1), Num(2), Num(3)>>
    /\ Qualifying = {1, 2, 3}

\* top 150 % over three numbers marks none of them
C26_PercentCase ==
    /\ Formatted
    /\ columnRules[1].type = "topBottom" /\ columnRules[1].mode = "top"
    /\ columnRules[1].percent /\ columnRules[1].count = 150
    /\ column = <<Num(1), Num(2), Num(3)>>
    /\ Qualifying = {}

(***************************************************************************)
(* C27: labels of the row headers                                          *)
(***************************************************************************)
\* a row whose group value is g (no key g when g is undefined)
LabelRow(g, v) ==
    (IF g = Undefined THEN <<>> ELSE << <<(<<"g">>), g>> >>)
    \o << <<(<<"k">>), Str(<<"x">>)>>, <<(<<"p">>), Str(<<"A">>)>>,
          <<(<<"v">>), v>> >>

\* group values that are blank, falsy without being blank, and ordinary
LabelPool ==
    <<LabelRow(Null, Num(1)), LabelRow(Undefined, Num(2)),
      LabelRow(Str(<<>>), Num(3)), LabelRow(Num(0), Num(4)),
      LabelRow(Bool(FALSE), Num(5)), LabelRow(Num(5), Num(6)),
      LabelRow(Str(<<"a">>), Num(7)), LabelRow(Bool(TRUE), Num(8))>>

LabelSeqs ==
    UNION {{[i \in 1..n |-> LabelPool[f[i]]] :
               f \in {h \in [1..n -> 1..Len(LabelPool)] :
                         \A i, j \in 1..n : h[i] = h[j] => i = j}}
           : n \in 0..(MaxRows - 1)}

InitLabels ==
    /\ data \in {Dataset(rs) : rs \in LabelSeqs}
    /\ gcData = NoData
    /\ rcData = NoData
    /\ groupCols \in {SubSeq(GroupPool, 1, 1), GroupPool}
    /\ pivotCols = <<>>
    /\ valueCols = SubSeq(ValuePool, 1, 1)
    /\ totalsConfig \in {NoConfig} \cup
          {tc \in TotalsConfigs :
              tc.defined /\ tc.showColumnTotals /\ ~tc.showRowTotals}
    /\ result = NoResult
    /\ prevResult = NoResult
    /\ calls = 0
    /\ input0 = Inputs
    /\ trace = [sortedRowKeys |-> <<>>, colKeys |-> <<>>]
    /\ FormatIdle
    /\ CsvIdle
    /\ ShellIdle

SpecLabels == InitLabels /\ [][NextPivot]_vars

\* null, undefined or the empty string
isBlankValue(v) == v = Null \/ v = Undefined \/ v = Str(<<>>)

\* the first row of the dataset whose group key is the key of output row i
representativeOf(i) ==
    data.rows[CHOOSE n \in 1..Len(data.rows) :
                 /\ keyOf(data.rows[n], groupCols) = trace.sortedRowKeys[i]
                 /\ \A m \in 1..(n - 1) :
                        keyOf(data.rows[m], groupCols) # trace.sortedRowKeys[i]]

\* C27: the header cell of a data row shows "(Blank)" exactly when the group
\* value of the first row observed for its key is null, undefined or the
\* empty string, and the string form of that value otherwise, 0 and false
\* included; every row key has its header row.
C27_BlankLabels ==
    Returned =>
        /\ Len(result.rowHeaders) = Len(trace.sortedRowKeys)
        /\ \A i \in 1..Len(result.rowHeaders) :
              isDataRow(i) =>
                  \A j \in 1..Len(groupCols) :
                      LET v == Get(representativeOf(i), groupCols[j].id)
                      IN result.rowHeaders[i][j].value =
                             IF isBlankValue(v) THEN Blank ELSE String(v)

\* the only row has the group value 0 and its header reads "(Blank)"
C27_ZeroCase ==
    /\ Returned
    /\ Len(groupCols) = 1
    /\ Len(data.rows) = 1
    /\ Get(data.rows[1], <<"g">>) = Num(0)
    /\ result.rowHeaders[1][1].value = Blank

\* the group values null and 5 give the headers "(Blank)" and "5"
C27_BlankCase ==
    /\ Returned
    /\ Len(groupCols) = 1
    /\ totalsConfig = NoConfig
    /\ Len(data.rows) = 2
    /\ Get(data.rows[1], <<"g">>) = Num(5)
    /\ Get(data.rows[2], <<"g">>) = Null
    /\ result.rowHeaders[1][1].value = Blank
    /\ result.rowHeaders[2][1].value = <<"5">>

(***************************************************************************)
(* C28: several rows of the dataset in one cell                            *)
(***************************************************************************)
\* a row of group a or b and pivot value A, with or without the fields v, Sa
DupRow(g, v, sa) ==
    << <<(<<"g">>), Str(g)>>, <<(<<"p">>), Str(<<"A">>)>> >>
    \o (IF v = Undefined THEN <<>> ELSE << <<(<<"v">>), v>> >>)
    \o (IF sa = Undefined THEN <<>> ELSE << <<(<<"S", "a">>), sa>> >>)

DupPool ==
    <<DupRow(<<"a">>, Num(1), Num(5)),
      DupRow(<<"a">>, Num(2), Undefined),
      DupRow(<<"a">>, Null, Num(7)),
      DupRow(<<"b">>, Num(3), Num(3))>>

DupSeqs ==
    UNION {{[i \in 1..n |-> DupPool[f[i]]] :
               f \in {h \in [1..n -> 1..Len(DupPool)] :
                         \A i, j \in 1..n : h[i] = h[j] => i = j}}
           : n \in 0..MaxRows}

InitDuplicates ==
    /\ data \in {Dataset(rs) : rs \in DupSeqs}
    /\ gcData = NoData
    /\ rcData = NoData
    /\ groupCols = <<GroupPool[1]>>
    /\ pivotCols \in Prefixes(<<PivotPool[1]>>)
    /\ valueCols \in {<<ValuePool[1]>>, <<Bracketed>>, <<ValuePool[1], Bracketed>>}
    /\ totalsConfig = NoConfig
    /\ result = NoResult
    /\ prevResult = NoResult
    /\ calls = 0
    /\ input0 = Inputs
    /\ trace = [sortedRowKeys |-> <<>>, colKeys |-> <<>>]
    /\ FormatIdle
    /\ CsvIdle
    /\ ShellIdle

SpecDuplicates == InitDuplicates /\ [][NextPivot]_vars

\* the positions of the rows of the dataset that fall in the cell (rKey, cKey)
rowsOfCell(rKey, cKey) ==
    {n \in 1..Len(data.rows) :
        keyOf(data.rows[n], groupCols) = rKey /\ colKeyOfRow(data.rows[n]) = cKey}

\* the last of them
lastRowOfCell(rKey, cKey) ==
    data.rows[CHOOSE n \in rowsOfCell(rKey, cKey) :
                 \A m \in rowsOfCell(rKey, cKey) : m <= n]

\* the value a row has for a value column, null when it has none
ownValueOf(row, vc) == orElse(findFieldValue(row, vc.id, vc.name), Null)

\* C28: a data cell shows, for each value column, the value that the last
\* row of the dataset with its row key and column key has for the column,
\* null when that row has none: neither a sum nor the value of an earlier row.
C28_LastRowWins ==
    Returned =>
        \A i \in 1..Len(trace.sortedRowKeys) :
            \A j \in 1..Len(trace.colKeys) :
                \A k \in 1..Len(valueCols) :
                    rowsOfCell(trace.sortedRowKeys[i], trace.colKeys[j]) # {} =>
                        cellAt(i, j, k) =
                            ownValueOf(lastRowOfCell(trace.sortedRowKeys[i],
                                                     trace.colKeys[j]),
                                       valueCols[k])

\* two rows of group a, the first with Sa = 5 and the second without the
\* field: the cell of the column [Sa] still shows 5
C28_LeftoverCase ==
    /\ Returned
    /\ valueCols = <<Bracketed>>
    /\ data.rows = <<DupPool[1], DupPool[2]>>
    /\ cellAt(1, 1, 1) = Num(5)

\* two rows of group a with v = 1 and v = 2: the cell shows 2, not 3
C28_OverwriteCase ==
    /\ Returned
    /\ valueCols = <<ValuePool[1]>>
    /\ data.rows = <<DupPool[1], DupPool[2]>>
    /\ cellAt(1, 1, 1) = Num(2)

\* the last row holds null and the earlier one a number: the cell shows null
C28_NullCase ==
    /\ Returned
    /\ valueCols = <<ValuePool[1]>>
    /\ data.rows = <<DupPool[1], DupPool[3]>>
    /\ cellAt(1, 1, 1) = Null

(***************************************************************************)
(* exportData of utils/exportManager.ts.  Names are strings; a file name   *)
(* is the pair of the worksheet name and the suffix that tell the files of *)
(* one call apart (the workbook name and the date are the same for all of  *)
(* them); the content of a file is the name of the worksheet whose data it *)
(* holds.                                                                  *)
(***************************************************************************)
MaxSheets == 3

\* the worksheets of the dashboard, in its order
WorksheetNames == <<"A", "B", "C", "D">>

\* the Config fields that exportData and its callees read
SheetConfig(mode, custom, selected, grouped) ==
    [exportMode |-> mode, worksheetName |-> custom,
     selectedWorksheet |-> selected,
     groupColumns |-> IF grouped THEN <<"g">> ELSE <<>>,
     pivotColumns |-> <<>>]

\* the object pushed for one worksheet: sheetName: config.worksheetName || name
SheetData(name, cfg, raw) ==
    [config |-> cfg, pivotResult |-> name,
     sheetName |-> IF cfg.worksheetName # "" THEN cfg.worksheetName ELSE name,
     rawDataSource |-> raw]

\* sheets.filter(s => s.config.exportMode === 'formatted' || !s.config.exportMode)
excelSheetsOf(list) ==
    SelectSeq(list, LAMBDA s : s.config.exportMode = "formatted"
                               \/ s.config.exportMode = "")

\* sheets.filter(s => s.config.exportMode === 'datadump')
csvSheetsOf(list) == SelectSeq(list, LAMBDA s : s.config.exportMode = "datadump")

\* the name given to a worksheet of the workbook: the first of finalSheetName,
\* finalSheetName (1), finalSheetName (2), ... that the workbook does not have
uniqueNameIn(workbook, finalSheetName) ==
    LET taken == {workbook[i].name : i \in 1..Len(workbook)}
        counter == CHOOSE c \in 0..Len(workbook) :
                       /\ <<finalSheetName, c>> \notin taken
                       /\ \A d \in 0..(c - 1) : <<finalSheetName, d>> \in taken
    IN <<finalSheetName, counter>>

\* exportToExcel: one worksheet per sheet, in the order of the list
RECURSIVE addWorksheets(_, _)
addWorksheets(workbook, list) ==
    IF list = <<>> THEN workbook
    ELSE addWorksheets(
             Append(workbook,
                    [name |-> uniqueNameIn(workbook, Head(list).sheetName),
                     content |-> Head(list).pivotResult]),
             Tail(list))

\* config.worksheetName || config.selectedWorksheet || 'Sheet'
csvWorksheetName(cfg) ==
    IF cfg.worksheetName # "" THEN cfg.worksheetName
    ELSE IF cfg.selectedWorksheet # "" THEN cfg.selectedWorksheet
    ELSE "Sheet"

\* the file produced for one data-dump sheet
csvFileOf(sheet) ==
    [filename |->
         <<csvWorksheetName(sheet.config),
           IF sheet.rawDataSource
           THEN IF Len(sheet.config.pivotColumns) > 0
                   \/ Len(sheet.config.groupColumns) > 0
                THEN "_Pivot.csv" ELSE "_Raw.csv"
           ELSE ".csv">>,
     content |-> sheet.pivotResult]

csvFilesOf(list) == [i \in 1..Len(list) |-> csvFileOf(list[i])]

\* csvFiles.forEach(file => zip.file(file.filename, file.content)): a file
\* whose name the archive already has replaces it
RECURSIVE zipFiles(_, _)
zipFiles(zip, files) ==
    IF files = <<>> THEN zip
    ELSE zipFiles(MapSet(zip, Head(files).filename, Head(files).content),
                  Tail(files))

\* downloadFile(filename, buffer, ...) of the workbook
excelDownload(list) ==
    [kind |-> "xlsx", files |-> addWorksheets(<<>>, excelSheetsOf(list))]

\* the download of the data-dump files: the file itself or an archive
csvDownload(files) ==
    IF Len(files) = 1
    THEN [kind |-> "csv", files |-> << <<files[1].filename, files[1].content>> >>]
    ELSE [kind |-> "zip", files |-> zipFiles(<<>>, files)]

\* the first half of the try block: the workbook is produced and downloaded,
\* or exportToExcel rejects and the catch block rethrows
ExportExcelSheets ==
    /\ exportPc = "excel"
    /\ IF Len(excelSheetsOf(sheets)) > 0
       THEN \E ok \in BOOLEAN :
               IF ok
               THEN /\ downloads' = Append(downloads, excelDownload(sheets))
                    /\ exportPc' = "csv"
               ELSE /\ exportPc' = "thrown"
                    /\ UNCHANGED downloads
       ELSE /\ exportPc' = "csv"
            /\ UNCHANGED downloads
    /\ UNCHANGED sheets
    /\ UNCHANGED <<pivotVars, formatVars, csv, appVars, dragVars>>

\* the second half: the files are produced one sheet after the other and
\* downloaded as one file, or one of the steps rejects and the catch block
\* rethrows
ExportCsvSheets ==
    /\ exportPc = "csv"
    /\ IF Len(csvSheetsOf(sheets)) > 0
       THEN \E ok \in BOOLEAN :
               IF ok
               THEN /\ downloads' =
                          Append(downloads, csvDownload(csvFilesOf(csvSheetsOf(sheets))))
                    /\ exportPc' = "done"
               ELSE /\ exportPc' = "thrown"
                    /\ UNCHANGED downloads
       ELSE /\ exportPc' = "done"
            /\ UNCHANGED downloads
    /\ UNCHANGED sheets
    /\ UNCHANGED <<pivotVars, formatVars, csv, appVars, dragVars>>

\* the configurations a worksheet can have been saved with
SheetOptions(name) ==
    {SheetData(name, SheetConfig(m, c, name, TRUE), FALSE) :
         m \in {"", "formatted", "datadump"}, c \in {"", "Sales"}}
    \cup {SheetData(name, SheetConfig("datadump", "Sales", name, g), TRUE) :
              g \in BOOLEAN}

\* one sheet per worksheet, for the first n worksheets of the dashboard
SheetLists ==
    UNION {{list \in [1..n -> UNION {SheetOptions(WorksheetNames[i]) : i \in 1..n}] :
               \A i \in 1..n : list[i] \in SheetOptions(WorksheetNames[i])}
           : n \in 0..MaxSheets}

InitExport ==
    /\ sheets \in SheetLists
    /\ downloads = <<>>
    /\ exportPc = "excel"
    /\ AppIdle
    /\ DragIdle
    /\ PivotIdle
    /\ FormatIdle
    /\ CsvIdle

NextExport == ExportExcelSheets \/ ExportCsvSheets

SpecExport == InitExport /\ [][NextExport]_vars

(***************************************************************************)
(* C21: the downloads of one call of exportData                            *)
(***************************************************************************)
\* the downloads of the given kinds, in order
downloadsOfKind(kinds) == SelectSeq(downloads, LAMBDA d : d.kind \in kinds)

\* the worksheets whose data a list of sheets holds, in order
contentsOf(list) == [i \in 1..Len(list) |-> list[i].pivotResult]

\* the contents of the files of a download, in order
fileContents(d) ==
    [i \in 1..Len(d.files) |->
        IF d.kind = "xlsx" THEN d.files[i].content ELSE d.files[i][2]]

\* C21: the formatted and unset sheets go into one .xlsx download with one
\* worksheet each; the data-dump sheets give one download, the .csv of the
\* sheet when there is one and a .zip with one file per sheet when there are
\* several; nothing else is downloaded; the workbook is downloaded first;
\* when the workbook cannot be produced the call throws and downloads nothing.
C21_Downloads ==
    LET xlsx == downloadsOfKind({"xlsx"})
        dump == downloadsOfKind({"csv", "zip"})
        excelSheets == excelSheetsOf(sheets)
        csvSheets == csvSheetsOf(sheets)
    IN exportPc # "idle" =>
           /\ downloads = xlsx \o dump
           /\ Len(xlsx) <= 1 /\ Len(dump) <= 1
           /\ Len(xlsx) = 1 =>
                 /\ excelSheets # <<>>
                 /\ fileContents(xlsx[1]) = contentsOf(excelSheets)
           /\ Len(dump) = 1 =>
                 /\ csvSheets # <<>>
                 /\ dump[1].kind = IF Len(csvSheets) = 1 THEN "csv" ELSE "zip"
                 /\ fileContents(dump[1]) = contentsOf(csvSheets)
                 /\ excelSheets # <<>> => Len(xlsx) = 1
           /\ exportPc = "done" =>
                 /\ Len(xlsx) = (IF excelSheets # <<>> THEN 1 ELSE 0)
                 /\ Len(dump) = (IF csvSheets # <<>> THEN 1 ELSE 0)
           /\ (exportPc = "thrown" /\ excelSheets # <<>> /\ xlsx = <<>>) =>
                 downloads = <<>>

\* two data-dump worksheets saved under the same worksheet name: the archive
\* holds one file, with the data of the second worksheet
C21_SameNameCase ==
    /\ exportPc = "done"
    /\ Len(sheets) = 2
    /\ sheets[1].config.exportMode = "datadump"
    /\ sheets[2].config.exportMode = "datadump"
    /\ ~sheets[1].rawDataSource /\ ~sheets[2].rawDataSource
    /\ sheets[1].config.worksheetName = "Sales"
    /\ sheets[2].config.worksheetName = "Sales"
    /\ downloads = <<[kind |-> "zip", files |-> << <<(<<"Sales", ".csv">>), "B">> >>]>>

\* a workbook sheet and two data-dump sheets of different names: the workbook
\* is downloaded, then an archive of two files
C21_MixedCase ==
    /\ exportPc = "done"
    /\ Len(sheets) = 3
    /\ Len(downloads) = 2
    /\ downloads[1].kind = "xlsx" /\ fileContents(downloads[1]) = <<"A">>
    /\ downloads[2].kind = "zip" /\ fileContents(downloads[2]) = <<"B", "C">>

\* the workbook cannot be produced: nothing is downloaded, though a
\* data-dump sheet was waiting
C21_ExcelFailsCase ==
    /\ exportPc = "thrown"
    /\ downloads = <<>>
    /\ excelSheetsOf(sheets) # <<>>
    /\ csvSheetsOf(sheets) # <<>>

(***************************************************************************)
(* App.handleExport.  The handler runs up to its first await, the callback *)
(* of each configured worksheet runs from one await to the next, and the   *)
(* reactions to a settled promise run in the same turn as the step that    *)
(* settles it.  A message is a tuple of strings, the empty tuple being the *)
(* empty message.                                                          *)
(***************************************************************************)
MaxWorksheets == 2

NotLoaded == <<"Configuration not loaded. Please configure the extension first.">>
FailedToExport == <<"Failed to export data">>

\* configuredWorksheets after step 1: the worksheets that have a config, or
\* the saved configuration alone when none has
configuredWorksheetsOf(saved, parsed) ==
    IF Len(parsed) = 0
    THEN <<[name |-> saved.selectedWorksheet, config |-> saved]>>
    ELSE parsed

\* a callback that awaits fetchFullDataset, which it has called once
Fetching == [pc |-> "fetching", fetches |-> 1, error |-> <<>>]

\* variant: Promise.allSettled in the place of Promise.all
settledAll_ignoreRejections(cbs) ==
    IF \A i \in 1..Len(cbs) : cbs[i].pc \in {"fulfilled", "rejected"}
    THEN "fulfilled" ELSE "pending"

\* the state of Promise.all(configuredWorksheets.map(async ...))
settledAll(cbs) ==
    IF \E i \in 1..Len(cbs) : cbs[i].pc = "rejected" THEN "rejected"
    ELSE IF \A i \in 1..Len(cbs) : cbs[i].pc = "fulfilled" THEN "fulfilled"
    ELSE "pending"

\* error.message || 'Failed to export data'
messageOf(error) == IF error = <<>> THEN FailedToExport ELSE error

\* the handler from the await of Promise.all on, in the turn in which the
\* callback of a worksheet settles with the given error (if it rejects):
\* the catch and finally blocks, or the call of exportData up to its first
\* await, or nothing while a callback is pending or the handler is over
ResumeHandler(cbs, list, error) ==
    IF handlerPc = "awaiting" /\ settledAll(cbs) = "rejected"
    THEN /\ exportError' = messageOf(error)
         /\ isExporting' = FALSE
         /\ handlerPc' = "finished"
         /\ UNCHANGED <<exportDataCalls, exportVars>>
    ELSE IF handlerPc = "awaiting" /\ settledAll(cbs) = "fulfilled"
    THEN /\ exportDataCalls' = Append(exportDataCalls, list)
         /\ sheets' = list
         /\ downloads' = <<>>
         /\ exportPc' = "excel"
         /\ handlerPc' = "exporting"
         /\ UNCHANGED <<exportError, isExporting>>
    ELSE UNCHANGED <<exportError, isExporting, handlerPc, exportDataCalls,
                     exportVars>>

\* handleExport from its first statement to the await of Promise.all: every
\* callback runs up to its await of fetchFullDataset
HandleExport ==
    /\ handlerPc = "idle"
    /\ IF savedConfig = NoSavedConfig
       THEN /\ exportError' = NotLoaded
            /\ handlerPc' = "finished"
            /\ UNCHANGED <<isExporting, configuredWorksheets, callbacks>>
       ELSE /\ isExporting' = TRUE
            /\ exportError' = Null
            /\ configuredWorksheets' = configuredWorksheetsOf(savedConfig, settings)
            /\ callbacks' =
                   [i \in 1..Len(configuredWorksheetsOf(savedConfig, settings)) |->
                       Fetching]
            /\ handlerPc' = "awaiting"
    /\ UNCHANGED <<savedConfig, settings, exportDataList, exportDataCalls>>
    /\ UNCHANGED <<pivotVars, formatVars, csv, exportVars, dragVars>>

\* fetchFullDataset settles for one worksheet: the callback goes on to fetch
\* the filters, or it rejects with the error that fetchFullDataset rethrows
FetchSettles ==
    \E i \in 1..Len(callbacks) :
        /\ callbacks[i].pc = "fetching"
        /\ \E error \in {<<>>, <<"ok">>, <<"fetch", configuredWorksheets[i].name>>} :
              LET cbs == [callbacks EXCEPT ![i] =
                              IF error = <<"ok">>
                              THEN [@ EXCEPT !.pc = "filtering"]
                              ELSE [@ EXCEPT !.pc = "rejected", !.error = error]]
              IN /\ callbacks' = cbs
                 /\ ResumeHandler(cbs, exportDataList, error)
        /\ UNCHANGED <<savedConfig, settings, configuredWorksheets, exportDataList>>
        /\ UNCHANGED <<pivotVars, formatVars, csv, dragVars>>

\* the filters of one worksheet have arrived (or could not be fetched, which
\* the callback catches): it pivots the data and pushes its sheet, or
\* rejects with the error that processPivotData throws
CallbackFinishes ==
    \E i \in 1..Len(callbacks) :
        /\ callbacks[i].pc = "filtering"
        /\ \E error \in {<<"ok">>, <<"pivot", configuredWorksheets[i].name>>} :
              LET cbs == [callbacks EXCEPT ![i] =
                              IF error = <<"ok">>
                              THEN [@ EXCEPT !.pc = "fulfilled"]
                              ELSE [@ EXCEPT !.pc = "rejected", !.error = error]]
                  list == IF error = <<"ok">>
                          THEN Append(exportDataList,
                                      SheetData(configuredWorksheets[i].name,
                                                configuredWorksheets[i].config,
                                                FALSE))
                          ELSE exportDataList
              IN /\ callbacks' = cbs
                 /\ exportDataList' = list
                 /\ ResumeHandler(cbs, list, error)
        /\ UNCHANGED <<savedConfig, settings, configuredWorksheets>>
        /\ UNCHANGED <<pivotVars, formatVars, csv, dragVars>>

\* exportData has returned or thrown: the rest of the try block, the catch
\* block and the finally block
ExportDataSettles ==
    /\ handlerPc = "exporting"
    /\ exportPc \in {"done", "thrown"}
    /\ exportError' = IF exportPc = "thrown" THEN messageOf(<<"export">>)
                      ELSE exportError
    /\ isExporting' = FALSE
    /\ handlerPc' = "finished"
    /\ UNCHANGED <<savedConfig, settings, configuredWorksheets, callbacks,
                   exportDataList, exportDataCalls>>
    /\ UNCHANGED <<pivotVars, formatVars, csv, exportVars, dragVars>>

\* the parsed settings: a config for each of the first n worksheets
SettingsLists ==
    UNION {{[i \in 1..n |->
                [name |-> WorksheetNames[i],
                 config |-> SheetConfig(m[i], "", WorksheetNames[i], TRUE)]] :
               m \in [1..n -> {"formatted", "datadump"}]}
           : n \in 0..MaxWorksheets}

InitApp ==
    /\ savedConfig \in {NoSavedConfig, SheetConfig("formatted", "", "A", TRUE)}
    /\ settings \in SettingsLists
    /\ configuredWorksheets = <<>>
    /\ callbacks = <<>>
    /\ exportDataList = <<>>
    /\ isExporting = FALSE
    /\ exportError \in {Null, <<"previous">>}
    /\ handlerPc = "idle"
    /\ exportDataCalls = <<>>
    /\ ExportIdle
    /\ DragIdle
    /\ PivotIdle
    /\ FormatIdle
    /\ CsvIdle

NextApp ==
    \/ HandleExport
    \/ FetchSettles
    \/ CallbackFinishes
    \/ ExportExcelSheets
    \/ ExportCsvSheets
    \/ ExportDataSettles

SpecApp == InitApp /\ [][NextApp]_vars

(***************************************************************************)
(* C22: a failure while the worksheets are fetched and pivoted             *)
(***************************************************************************)
\* the callbacks that rejected
rejectedCallbacks == {i \in 1..Len(callbacks) : callbacks[i].pc = "rejected"}

\* C22: once the fetch or the pivot of a configured worksheet has failed,
\* exportData is not called and exportError holds the message of a failure
\* (the fallback message when the error has none); no worksheet is fetched
\* twice; and isExporting is false when the handler is over, whether it
\* failed or succeeded.
C22_FailureSurfaced ==
    /\ rejectedCallbacks # {} =>
          /\ exportDataCalls = <<>>
          /\ exportPc = "idle"
          /\ handlerPc = "finished"
          /\ exportError \in {messageOf(callbacks[i].error) : i \in rejectedCallbacks}
    /\ \A i \in 1..Len(callbacks) : callbacks[i].fetches = 1
    /\ handlerPc = "finished" => isExporting = FALSE
    /\ handlerPc \in {"awaiting", "exporting"} => isExporting = TRUE

\* the fetch of worksheet B failed while worksheet A was still being fetched
C22_Witness ==
    /\ Len(callbacks) = 2
    /\ callbacks[1].pc = "fulfilled"
    /\ callbacks[2].pc = "rejected"
    /\ exportError = <<"fetch", "B">>
    /\ isExporting = FALSE
    /\ handlerPc = "finished"
    /\ exportDataCalls = <<>>
    /\ downloads = <<>>

\* the handler is over after a successful export
C22_SuccessCase ==
    /\ handlerPc = "finished"
    /\ exportPc = "done"
    /\ Len(exportDataCalls) = 1
    /\ isExporting = FALSE
    /\ exportError = Null

(***************************************************************************)
(* C29: the order of the list handed to exportData                         *)
(***************************************************************************)
\* the worksheets of a list of sheets or of configured worksheets, in order
pushedNames(list) == [i \in 1..Len(list) |-> list[i].pivotResult]
configuredNames == [i \in 1..Len(configuredWorksheets) |-> configuredWorksheets[i].name]

\* C29: the worksheets are fetched concurrently, and the list handed to
\* exportData has one entry per configured worksheet, in the order of the
\* configured worksheets whatever the order in which the fetches complete.
C29_ConfiguredOrder ==
    /\ handlerPc = "awaiting" =>
          \A i \in 1..Len(callbacks) : callbacks[i].pc # "idle"
    /\ \A n \in 1..Len(exportDataCalls) :
          pushedNames(exportDataCalls[n]) = configuredNames

\* one entry per configured worksheet
C29_OneEntryEach ==
    \A n \in 1..Len(exportDataCalls) :
        /\ Len(exportDataCalls[n]) = Len(configuredWorksheets)
        /\ {pushedNames(exportDataCalls[n])[i] : i \in 1..Len(exportDataCalls[n])}
              = {configuredNames[i] : i \in 1..Len(configuredNames)}

\* worksheet B completed before worksheet A: exportData receives B, then A
C29_CompletionOrderCase ==
    /\ configuredNames = <<"A", "B">>
    /\ Len(exportDataCalls) = 1
    /\ pushedNames(exportDataCalls[1]) = <<"B", "A">>

\* both fetches are in flight at the same time
C29_ConcurrentCase ==
    /\ Len(callbacks) = 2
    /\ callbacks[1].pc = "fetching"
    /\ callbacks[2].pc = "fetching"

(***************************************************************************)
(* PivotConfig: the four lists of columns and the drag-end handler.  A     *)
(* column is its id; the parent holds the group, pivot and value lists in  *)
(* its configuration and passes as available columns the fields that are   *)
(* in none of them.                                                        *)
(***************************************************************************)
MaxColumns == 3

\* the fields of the worksheet; one of them is named like a container
FieldPool == <<"a", "b", "value", "c">>

ContainerIds == <<"available", "group", "pivot", "value">>

\* event.over is null
NoTarget == ""
\* findContainer found nothing
NoContainer == ""

indexIn(list, id) ==
    IF \E i \in 1..Len(list) : list[i] = id
    THEN CHOOSE i \in 1..Len(list) : list[i] = id /\ \A j \in 1..(i - 1) : list[j] # id
    ELSE 0

\* if (id in containers) return id; otherwise the first container, in the
\* order of its keys, that holds a column of that id
findContainer(cs, id) ==
    IF id \in DOMAIN cs THEN id
    ELSE LET hits == {k \in 1..4 : indexIn(cs[ContainerIds[k]], id) > 0}
         IN IF hits = {} THEN NoContainer
            ELSE ContainerIds[CHOOSE k \in hits : \A m \in hits : k <= m]

\* arrayMove(list, oldIndex, newIndex)
arrayMove(list, oldIndex, newIndex) ==
    LET rest == SubSeq(list, 1, oldIndex - 1) \o SubSeq(list, oldIndex + 1, Len(list))
    IN SubSeq(rest, 1, newIndex - 1) \o <<list[oldIndex]>>
       \o SubSeq(rest, newIndex, Len(rest))

\* onUpdate(section, items) when the section is not the available list
notify(section, items) ==
    IF section # "available" THEN << <<section, items>> >> ELSE <<>>

\* the branch "Reordering within same list"
reorderWithin(cs, c, activeId, overId) ==
    LET oldIndex == indexIn(cs[c], activeId)
        newIndex == indexIn(cs[c], overId)
    IN IF oldIndex # 0 /\ newIndex # 0 /\ oldIndex # newIndex
       THEN [containers |-> [cs EXCEPT ![c] = arrayMove(cs[c], oldIndex, newIndex)],
             updates |-> notify(c, arrayMove(cs[c], oldIndex, newIndex))]
       ELSE [containers |-> cs, updates |-> <<>>]

\* variant: the column stays in the list it is dragged from
moveBetween_keepSource(cs, from, to, activeId) ==
    IF indexIn(cs[from], activeId) = 0
    THEN [containers |-> cs, updates |-> <<>>]
    ELSE [containers |-> [cs EXCEPT ![to] = Append(cs[to], activeId)],
          updates |-> notify(to, Append(cs[to], activeId))]

\* the branch "Moving between lists"
moveBetween(cs, from, to, activeId) ==
    IF indexIn(cs[from], activeId) = 0
    THEN [containers |-> cs, updates |-> <<>>]
    ELSE LET newSource == SelectSeq(cs[from], LAMBDA c : c # activeId)
             newDest == Append(cs[to], activeId)
         IN [containers |-> [cs EXCEPT ![from] = newSource, ![to] = newDest],
             updates |-> notify(from, newSource) \o notify(to, newDest)]

\* handleDragEnd: the new containers and the calls of onUpdate, in order
handleDragEnd(cs, activeId, overId) ==
    LET activeContainer == findContainer(cs, activeId)
        overContainer == findContainer(cs, overId)
    IN IF activeContainer = NoContainer \/ overId = NoTarget
          \/ overContainer = NoContainer
       THEN [containers |-> cs, updates |-> <<>>]
       ELSE IF activeContainer = overContainer
       THEN reorderWithin(cs, activeContainer, activeId, overId)
       ELSE moveBetween(cs, activeContainer, overContainer, activeId)

\* updateConfig({[`${section}Columns`]: columns}) for each call of onUpdate
RECURSIVE applyUpdates(_, _)
applyUpdates(cfg, updates) ==
    IF updates = <<>> THEN cfg
    ELSE applyUpdates([cfg EXCEPT ![Head(updates)[1]] = Head(updates)[2]],
                      Tail(updates))

\* the props of PivotConfig, which its effect copies into the containers: the
\* available columns are the fields used in no section
containersOf(fields, cfg) ==
    [available |->
         SelectSeq(fields, LAMBDA f : /\ indexIn(cfg.group, f) = 0
                                      /\ indexIn(cfg.pivot, f) = 0
                                      /\ indexIn(cfg.value, f) = 0),
     group |-> cfg.group, pivot |-> cfg.pivot, value |-> cfg.value]

\* one drag-end event: the handler, the updates of the parent configuration
\* and, when the parent renders again, the effect that copies the props
DragEnd ==
    \E activeId \in {allFields[i] : i \in 1..Len(allFields)} :
      \E overId \in {NoTarget} \cup {ContainerIds[k] : k \in 1..4}
                    \cup {allFields[i] : i \in 1..Len(allFields)} :
        LET after == handleDragEnd(containers, activeId, overId)
            cfg == applyUpdates(config, after.updates)
        IN /\ config' = cfg
           /\ containers' = IF after.updates # <<>>
                            THEN containersOf(allFields, cfg)
                            ELSE after.containers
           /\ lastDrag' = [active |-> activeId, over |-> overId,
                           containers |-> containers, config |-> config]
           /\ UNCHANGED allFields
           /\ UNCHANGED <<pivotVars, formatVars, csv, exportVars, appVars>>

InitDrag ==
    /\ allFields \in {SubSeq(FieldPool, 1, n) : n \in 1..MaxColumns}
    /\ config = [group |-> <<>>, pivot |-> <<>>, value |-> <<>>]
    /\ containers = containersOf(allFields, config)
    /\ lastDrag = NoDrag
    /\ ExportIdle
    /\ AppIdle
    /\ PivotIdle
    /\ FormatIdle
    /\ CsvIdle

NextDrag == DragEnd

SpecDrag == InitDrag /\ [][NextDrag]_vars

(***************************************************************************)
(* C30: the columns are partitioned among the four containers              *)
(***************************************************************************)
\* the number of places a column takes in the four containers
placesOf(id) ==
    Cardinality({<<k, i>> \in (1..4) \X (1..Len(allFields)) :
                    /\ i <= Len(containers[ContainerIds[k]])
                    /\ containers[ContainerIds[k]][i] = id})

\* C30: after any sequence of drag-end events every column is in exactly one
\* of the containers available, group, pivot and value, which hold nothing
\* else; a drop with no target, or of a column onto itself, changes neither
\* the containers nor the configuration.
C30_ColumnPartition ==
    /\ \A i \in 1..Len(allFields) : placesOf(allFields[i]) = 1
    /\ \A k \in 1..4 : Len(containers[ContainerIds[k]]) <= Len(allFields)
    /\ Len(containers.available) + Len(containers.group)
          + Len(containers.pivot) + Len(containers.value) = Len(allFields)
    /\ (lastDrag # NoDrag
           /\ (lastDrag.over = NoTarget \/ lastDrag.over = lastDrag.active)) =>
          /\ containers = lastDrag.containers
          /\ config = lastDrag.config

\* after a move from a section to another, a column dropped on itself
C30_Witness ==
    /\ lastDrag # NoDrag
    /\ allFields = <<"a", "b", "value">>
    /\ lastDrag.active = "b" /\ lastDrag.over = "b"
    /\ containers = [available |-> <<"value">>, group |-> <<"b">>,
                     pivot |-> <<>>, value |-> <<"a">>]
    /\ config = [group |-> <<"b">>, pivot |-> <<>>, value |-> <<"a">>]

(***************************************************************************)
(* The whole model: any of the initial states above, and any operation.    *)
(***************************************************************************)
Init ==
    \/ InitPivot
    \/ InitFormat
    \/ InitResolve
    \/ InitExport
    \/ InitApp
    \/ InitDrag

Next ==
    \/ NextPivot
    \/ NextFormat
    \/ ExportToCSV
    \/ NextApp
    \/ NextDrag

Spec == Init /\ [][Next]_vars

====
